---- MODULE Spec2Model ----
(***************************************************************************)
(* Model of the noirc_evaluator SSA back end: the polynomial algebra and   *)
(* the range/comparison/bitwise constraint library of ssa/acir_gen, and    *)
(* the instruction dispatch of the ACIR generator; and the Brillig         *)
(* bytecode generator of brillig/brillig_gen with its linker.              *)
(*                                                                         *)
(* Expressions are records {mul_terms, linear_combinations, q_c} as in     *)
(* acvm's Expression; a term is a tuple whose first component is the       *)
(* coefficient (Rust's .0) followed by the witness indices (.1, .2).       *)
(* Field elements are integers modulo FieldModulus.                        *)
(***************************************************************************)
EXTENDS Integers, Sequences, FiniteSets, TLC

VARIABLES
    \* the call under study: position, function name, arguments, result
    pc, fn, a, b, k, num_bits, va, vb, opcode, ret, status,
    \* the Evaluator and the messages printed to stderr
    opcodes, current_witness_index, stderr,
    \* the ACIR generator: Acir::arith_cache, Acir::memory_map,
    \* Evaluator::public_inputs, the instruction being evaluated and the
    \* evaluator as it was before that instruction
    arith_cache, memory_map, public_inputs, ins, pre,
    \* the Brillig generator: the SSA context it reads, the BrilligGen under
    \* construction and the number of instructions of the block it has
    \* processed
    ssa, brillig, ip,
    \* the linker: its worklist, the artefact being linked into, the bytecode
    \* link returned and the functions link_with was called on, in order
    queue, linked, byte_code, appended

args == <<a, b, k, num_bits, va, vb, opcode>>
acir == <<arith_cache, memory_map, public_inputs, ins, pre>>

bril == <<ssa, brillig, ip, queue, linked, byte_code, appended>>

vars == <<pc, fn, args, ret, status, opcodes, current_witness_index, stderr, acir, bril>>

-----------------------------------------------------------------------------
(* Bounds of the model *)

\* witnesses 1..NumVars exist before the operation under study is called
NumVars == 2
\* largest total number of terms (linear plus quadratic) of the two input
\* expressions of one call
MaxTerms == 3
\* number of instructions evaluated by the ACIR generator in one run
MaxInstructions == 2
\* bit size of the operands of a bound constraint
CmpBits == 3

-----------------------------------------------------------------------------
(* The prime field *)

\* modulus of FieldElement, scaled down to a 7-bit prime
FieldModulus == 67

Field == 0 .. (FieldModulus - 1)

RECURSIVE BitLen(_)
BitLen(x) == IF x = 0 THEN 0 ELSE 1 + BitLen(x \div 2)

\* FieldElement::max_num_bits(): the bit length of the modulus
max_num_bits == BitLen(FieldModulus)

FAdd(x, y) == (x + y) % FieldModulus
FMul(x, y) == (x * y) % FieldModulus
FNeg(x) == (FieldModulus - x) % FieldModulus

RECURSIVE FPow(_, _)
FPow(x, e) == IF e = 0 THEN 1 ELSE FMul(x, FPow(x, e - 1))

-----------------------------------------------------------------------------
(* acvm Expression *)

Expr(m, l, c) == [mul_terms |-> m, linear_combinations |-> l, q_c |-> c]

\* `let value = ..; body`: the value is computed once and named in the body
Let(value, body(_)) == body(value)

\* Expression::default() / Expression::zero()
ExprZero == Expr(<<>>, <<>>, 0)
\* Expression::one()
ExprOne == Expr(<<>>, <<>>, 1)
\* Expression::from_field(c)
from_field(c) == Expr(<<>>, <<>>, c)
\* Expression::is_const
is_const(e) == e.mul_terms = <<>> /\ e.linear_combinations = <<>>
\* Expression::is_linear
is_linear(e) == e.mul_terms = <<>>

\* Ord on (Witness, Witness): lexicographic
PairLess(p1, p2, q1, q2) == p1 < q1 \/ (p1 = q1 /\ p2 < q2)

-----------------------------------------------------------------------------
(* constraints.rs: add, subtract, single_mul, mul *)

\* `if coeff != FieldElement::zero()` guarding a push in add
KeepAlways(coeff) == TRUE
KeepTerm(coeff) == coeff # 0

RECURSIVE AddLinear(_, _, _, _, _, _)
AddLinear(la, lb, s, i1, i2, out) ==
    IF i1 <= Len(la) /\ i2 <= Len(lb) THEN
        IF la[i1][2] > lb[i2][2] THEN
            LET coeff == FMul(lb[i2][1], s) IN
            AddLinear(la, lb, s, i1, i2 + 1,
                      IF KeepTerm(coeff) THEN Append(out, <<coeff, lb[i2][2]>>) ELSE out)
        ELSE IF la[i1][2] < lb[i2][2] THEN
            AddLinear(la, lb, s, i1 + 1, i2, Append(out, la[i1]))
        ELSE
            LET coeff == FAdd(la[i1][1], FMul(lb[i2][1], s)) IN
            AddLinear(la, lb, s, i1 + 1, i2 + 1,
                      IF KeepTerm(coeff) THEN Append(out, <<coeff, la[i1][2]>>) ELSE out)
    ELSE IF i1 <= Len(la) THEN
        AddLinear(la, lb, s, i1 + 1, i2, Append(out, la[i1]))
    ELSE IF i2 <= Len(lb) THEN
        LET coeff == FMul(lb[i2][1], s) IN
        AddLinear(la, lb, s, i1, i2 + 1,
                  IF KeepTerm(coeff) THEN Append(out, <<coeff, lb[i2][2]>>) ELSE out)
    ELSE out

RECURSIVE AddMulTerms(_, _, _, _, _, _)
AddMulTerms(ma, mb, s, i1, i2, out) ==
    IF i1 <= Len(ma) /\ i2 <= Len(mb) THEN
        IF PairLess(mb[i2][2], mb[i2][3], ma[i1][2], ma[i1][3]) THEN
            LET coeff == FMul(mb[i2][1], s) IN
            AddMulTerms(ma, mb, s, i1, i2 + 1,
                        IF KeepTerm(coeff)
                        THEN Append(out, <<coeff, mb[i2][2], mb[i2][3]>>) ELSE out)
        ELSE IF PairLess(ma[i1][2], ma[i1][3], mb[i2][2], mb[i2][3]) THEN
            AddMulTerms(ma, mb, s, i1 + 1, i2, Append(out, ma[i1]))
        ELSE
            LET coeff == FAdd(ma[i1][1], FMul(mb[i2][1], s)) IN
            AddMulTerms(ma, mb, s, i1 + 1, i2 + 1,
                        IF KeepTerm(coeff)
                        THEN Append(out, <<coeff, ma[i1][2], ma[i1][3]>>) ELSE out)
    ELSE IF i1 <= Len(ma) THEN
        AddMulTerms(ma, mb, s, i1 + 1, i2, Append(out, ma[i1]))
    ELSE IF i2 <= Len(mb) THEN
        LET coeff == FMul(mb[i2][1], s) IN
        AddMulTerms(ma, mb, s, i1, i2 + 1,
                    IF KeepTerm(coeff)
                    THEN Append(out, <<coeff, mb[i2][2], mb[i2][3]>>) ELSE out)
    ELSE out

\* `output.q_c = a.q_c + k * b.q_c`
AddConstUnscaled(x, s, y) == FAdd(x.q_c, y.q_c)
AddConst(x, s, y) == FAdd(x.q_c, FMul(s, y.q_c))

\* returns x + s*y
add(x, s, y) ==
    Expr(AddMulTerms(x.mul_terms, y.mul_terms, s, 1, 1, <<>>),
         AddLinear(x.linear_combinations, y.linear_combinations, s, 1, 1, <<>>),
         AddConst(x, s, y))

\* returns x - s*y
subtract(x, s, y) == add(x, FNeg(s), y)

\* returns w*y.linear_combinations
RECURSIVE SingleMulTerms(_, _, _, _)
SingleMulTerms(w, l, i1, out) ==
    IF i1 <= Len(l) THEN
        SingleMulTerms(w, l, i1 + 1,
            IF PairLess(w, l[i1][2], l[i1][2], w)
            THEN Append(out, <<l[i1][1], w, l[i1][2]>>)
            ELSE Append(out, <<l[i1][1], l[i1][2], w>>))
    ELSE out

single_mul(w, y) == Expr(SingleMulTerms(w, y.linear_combinations, 1, <<>>), <<>>, 0)

\* first loop of mul: output = add(&output, lc.0, &single_mul(lc.1, b))
RECURSIVE MulDistribute(_, _, _, _)
MulDistribute(la, y, i, output) ==
    IF i <= Len(la)
    THEN MulDistribute(la, y, i + 1, add(output, la[i][1], single_mul(la[i][2], y)))
    ELSE output

\* second part of mul: the cross terms constant*linear, pushed on output
RECURSIVE MulLinear(_, _, _, _, _)
MulLinear(x, y, i1, i2, out) ==
    LET la == x.linear_combinations
        lb == y.linear_combinations
    IN
    IF i1 <= Len(la) /\ i2 <= Len(lb) THEN
        LET coeff_a == FMul(y.q_c, la[i1][1])
            coeff_b == FMul(x.q_c, lb[i2][1])
        IN
        IF la[i1][2] > lb[i2][2] THEN
            MulLinear(x, y, i1, i2 + 1,
                      IF coeff_b # 0 THEN Append(out, <<coeff_b, lb[i2][2]>>) ELSE out)
        ELSE IF la[i1][2] < lb[i2][2] THEN
            MulLinear(x, y, i1 + 1, i2,
                      IF coeff_a # 0 THEN Append(out, <<coeff_a, la[i1][2]>>) ELSE out)
        ELSE
            MulLinear(x, y, i1 + 1, i2 + 1,
                      IF FAdd(coeff_a, coeff_b) # 0
                      THEN Append(out, <<FAdd(coeff_a, coeff_b), la[i1][2]>>) ELSE out)
    ELSE IF i1 <= Len(la) THEN
        MulLinear(x, y, i1 + 1, i2, Append(out, <<FMul(y.q_c, la[i1][1]), la[i1][2]>>))
    ELSE IF i2 <= Len(lb) THEN
        MulLinear(x, y, i1, i2 + 1, Append(out, <<FMul(x.q_c, lb[i2][1]), lb[i2][2]>>))
    ELSE out

\* mul reaches unreachable!("Can only multiply linear terms")
mul_panics_before_const(x, y) == ~(is_linear(x) /\ is_linear(y))
mul_panics(x, y) == ~is_const(x) /\ ~is_const(y) /\ ~(is_linear(x) /\ is_linear(y))

\* x*y; where mul_panics(x, y) no value is returned and ExprZero stands for it
mul(x, y) ==
    IF is_const(x) THEN add(ExprZero, x.q_c, y)
    ELSE IF is_const(y) THEN add(ExprZero, y.q_c, x)
    ELSE IF ~(is_linear(x) /\ is_linear(y)) THEN ExprZero
    ELSE LET output == MulDistribute(x.linear_combinations, y,
                                     1, from_field(FMul(x.q_c, y.q_c)))
         IN Expr(output.mul_terms,
                 MulLinear(x, y, 1, 1, output.linear_combinations),
                 output.q_c)

-----------------------------------------------------------------------------
(* Values of expressions and opcodes under an assignment of the witnesses   *)
(* (a sequence: asg[w] is the value of witness w)                           *)

RECURSIVE EvalLin(_, _, _)
EvalLin(l, asg, i) ==
    IF i > Len(l) THEN 0
    ELSE FAdd(FMul(l[i][1], asg[l[i][2]]), EvalLin(l, asg, i + 1))

RECURSIVE EvalMul(_, _, _)
EvalMul(m, asg, i) ==
    IF i > Len(m) THEN 0
    ELSE FAdd(FMul(m[i][1], FMul(asg[m[i][2]], asg[m[i][3]])), EvalMul(m, asg, i + 1))

Eval(e, asg) ==
    FAdd(FAdd(EvalMul(e.mul_terms, asg, 1), EvalLin(e.linear_combinations, asg, 1)), e.q_c)

Max2(x, y) == IF x >= y THEN x ELSE y

RECURSIVE MaxWitLin(_, _)
MaxWitLin(l, i) == IF i > Len(l) THEN 0 ELSE Max2(l[i][2], MaxWitLin(l, i + 1))

RECURSIVE MaxWitMul(_, _)
MaxWitMul(m, i) ==
    IF i > Len(m) THEN 0 ELSE Max2(Max2(m[i][2], m[i][3]), MaxWitMul(m, i + 1))

\* the largest witness index an expression mentions
MaxWitExpr(e) == Max2(MaxWitMul(e.mul_terms, 1), MaxWitLin(e.linear_combinations, 1))

-----------------------------------------------------------------------------
(* The Evaluator (the constraint system under construction) and acvm's     *)
(* opcodes.  An evaluator value is [cwi |-> current_witness_index,         *)
(* ops |-> opcodes].                                                       *)

Evaluator(cwi, ops) == [cwi |-> cwi, ops |-> ops]

\* An opcode is a record [kind, expr, witness, num_bits, rhs, output]; the
\* fields a kind does not use are 0 (ExprZero for expr).
Opcode(kind, e, w, bits, w2, out) ==
    [kind |-> kind, expr |-> e, witness |-> w, num_bits |-> bits, rhs |-> w2, output |-> out]

\* AcirOpcode::Arithmetic(e): the gate e = 0
Arithmetic(e) == Opcode("Arithmetic", e, 0, 0, 0, 0)
\* AcirOpcode::BlackBoxFuncCall RANGE on one input
RangeCall(w, bits) == Opcode("RANGE", ExprZero, w, bits, 0, 0)
\* AcirOpcode::BlackBoxFuncCall AND / XOR on two inputs with one output
BitwiseCall(name, w1, w2, bits, out) == Opcode(name, ExprZero, w1, bits, w2, out)
\* AcirOpcode::Directive: a hint for the solver, no constraint
DirectiveOp(name, w, bits) == Opcode(name, ExprZero, w, bits, 0, 0)

\* Expression::from(&witness)
expression_from_witness(w) == Expr(<<>>, << <<1, w>> >>, 0)

RECURSIVE NegTerms(_, _)
NegTerms(l, i) ==
    IF i > Len(l) THEN <<>>
    ELSE << [l[i] EXCEPT ![1] = FNeg(l[i][1])] >> \o NegTerms(l, i + 1)

\* acvm's `&Expression - &Expression`: the terms of x followed by the
\* negated terms of y
ExprSub(x, y) ==
    Expr(x.mul_terms \o NegTerms(y.mul_terms, 1),
         x.linear_combinations \o NegTerms(y.linear_combinations, 1),
         FAdd(x.q_c, FNeg(y.q_c)))

\* Evaluator::add_witness_to_cs: the next index of the allocator
add_witness_to_cs(ev) == [ev |-> Evaluator(ev.cwi + 1, ev.ops), val |-> ev.cwi + 1]

\* Evaluator::create_intermediate_variable: a fresh witness w and the gate
\* e - w = 0
create_intermediate_variable(ev, e) ==
    LET w == add_witness_to_cs(ev) IN
    [ev |-> Evaluator(w.ev.cwi,
                      Append(w.ev.ops, Arithmetic(ExprSub(e, expression_from_witness(w.val))))),
     val |-> w.val]

-----------------------------------------------------------------------------
(* acir_gen.rs: expression_to_witness *)

expression_is_degree_1(e) == e.mul_terms = <<>>

expression_is_deg_one_univariate(e) ==
    expression_is_degree_1(e) /\ Len(e.linear_combinations) = 1

\* Some(variable) is modelled by the variable, None by 0
optional_ignoring_constant(e) ==
    IF expression_is_deg_one_univariate(e) /\ e.linear_combinations[1][1] = 1
    THEN e.linear_combinations[1][2] ELSE 0
optional_expression_to_witness(e) ==
    IF expression_is_deg_one_univariate(e)
       /\ e.linear_combinations[1][1] = 1 /\ e.q_c = 0
    THEN e.linear_combinations[1][2] ELSE 0

expression_to_witness(ev, e) ==
    IF optional_expression_to_witness(e) # 0
    THEN [ev |-> ev, val |-> optional_expression_to_witness(e)]
    ELSE create_intermediate_variable(ev, e)

-----------------------------------------------------------------------------
(* constraints.rs: mul_with_witness, boolean, boolean_expr *)

\* `!x.mul_terms.is_empty() && !other.is_const()`
materialize_if_quadratic(x, other) == x.mul_terms # <<>>
must_materialize(x, other) == x.mul_terms # <<>> /\ ~is_const(other)

\* the operands handed to mul, with the evaluator after the gates were added
mul_with_witness_operands(ev, x, y) ==
    LET a_witness == add_witness_to_cs(ev)
        reduce_a == must_materialize(x, y)
        a_arith == IF reduce_a THEN expression_from_witness(a_witness.val) ELSE x
        ev1 == IF reduce_a
               THEN Evaluator(a_witness.ev.cwi,
                              Append(a_witness.ev.ops, Arithmetic(ExprSub(x, a_arith))))
               ELSE ev
        b_witness == add_witness_to_cs(ev1)
        reduce_b == must_materialize(y, x)
        b_arith == IF reduce_b
                   THEN (IF x = y THEN a_arith ELSE expression_from_witness(b_witness.val))
                   ELSE y
        ev2 == IF reduce_b /\ x # y
               THEN Evaluator(b_witness.ev.cwi,
                              Append(b_witness.ev.ops, Arithmetic(ExprSub(y, b_arith))))
               ELSE ev1
    IN [ev |-> ev2, a_arith |-> a_arith, b_arith |-> b_arith]

mul_with_witness(ev, x, y) ==
    Let(mul_with_witness_operands(ev, x, y), LAMBDA o :
        [ev |-> o.ev, val |-> mul(o.a_arith, o.b_arith),
         panics |-> mul_panics(o.a_arith, o.b_arith)])

boolean(w) == Expr(<< <<1, w, w>> >>, << <<FNeg(1), w>> >>, 0)

boolean_expr(ev, e) ==
    Let(mul_with_witness(ev, e, e), LAMBDA m :
        [ev |-> m.ev, val |-> subtract(m.val, 1, e), panics |-> m.panics])

-----------------------------------------------------------------------------
(* constraints.rs: range_constraint, try_range_constraint.  A result is    *)
(* [ev, err, reports]: the evaluator, whether Err was returned, and the    *)
(* number of messages try_range_constraint printed.                        *)

\* `num_bits == FieldElement::max_num_bits()`
never_full_width(bits) == FALSE
is_full_width(bits) == bits = max_num_bits

\* `f = 2.pow(num_bits - 1)`: the weight of the top bit
odd_range_weight_full(bits) == FPow(2, bits)
odd_range_weight(bits) == FPow(2, bits - 1)

RECURSIVE range_constraint(_, _, _)
RECURSIVE try_range_constraint(_, _, _)

range_constraint(ev, witness, bits) ==
    IF bits = 1 THEN
        [ev |-> Evaluator(ev.cwi, Append(ev.ops, Arithmetic(boolean(witness)))),
         err |-> FALSE, reports |-> 0]
    ELSE IF is_full_width(bits) THEN
        [ev |-> ev, err |-> TRUE, reports |-> 0]
    ELSE IF bits % 2 = 1 THEN
        LET r_witness == add_witness_to_cs(ev)
            b_witness == add_witness_to_cs(r_witness.ev)
            ev1 == Evaluator(b_witness.ev.cwi,
                             Append(b_witness.ev.ops, DirectiveOp("OddRange", witness, bits)))
            t1 == try_range_constraint(ev1, r_witness.val, bits - 1)
            t2 == try_range_constraint(t1.ev, b_witness.val, 1)
            f == odd_range_weight(bits)
            res == add(expression_from_witness(r_witness.val), f,
                       expression_from_witness(b_witness.val))
            my_constraint == add(res, FNeg(1), expression_from_witness(witness))
        IN [ev |-> Evaluator(t2.ev.cwi, Append(t2.ev.ops, Arithmetic(my_constraint))),
            err |-> FALSE, reports |-> t1.reports + t2.reports]
    ELSE
        [ev |-> Evaluator(ev.cwi, Append(ev.ops, RangeCall(witness, bits))),
         err |-> FALSE, reports |-> 0]

try_range_constraint(ev, w, bits) ==
    LET r == range_constraint(ev, w, bits) IN
    [ev |-> r.ev, err |-> FALSE, reports |-> r.reports + (IF r.err THEN 1 ELSE 0)]

-----------------------------------------------------------------------------
(* constraints.rs: bound_constraint_with_offset.  A result is              *)
(* [ev, panics, reports].                                                  *)

\* width of u128
U128Bits == 128

\* FieldElement::fits_in_u128
fits_in_u128(c) == BitLen(c) <= U128Bits

\* bit_size_u128: the number of bits of a u128 value
bit_size_u128(x) == BitLen(x)

\* `assert!(b.q_c.to_u128() >= 1)` in the offset-one branch
offset_one_assert_fails(y) == y.q_c < 1

\* the bound f of the constant branch
constant_bound(y, offset) == IF offset = ExprOne THEN y.q_c - 1 ELSE y.q_c

\* `let r = (1_u128 << bit_size) - f - 1`
bound_remainder_plus_one(bit_size, f) == (2 ^ bit_size) - f
bound_remainder(bit_size, f) == (2 ^ bit_size) - f - 1

bound_constraint_with_offset(ev, x, y, offset, bits) ==
    LET aof0 == add(x, 1, offset)
        const_branch == is_const(y) /\ fits_in_u128(y.q_c)
        aof == IF const_branch /\ offset = ExprOne THEN x ELSE aof0
        f == constant_bound(y, offset)
        bit_size == bit_size_u128(f)
        done(e, p, r) == [ev |-> e, panics |-> p, reports |-> r]
    IN
    IF ~(bits < max_num_bits) THEN done(ev, TRUE, 0)
    ELSE IF const_branch /\ offset = ExprOne /\ offset_one_assert_fails(y) THEN
        done(ev, TRUE, 0)
    ELSE IF const_branch /\ f = 0 THEN
        done(Evaluator(ev.cwi, Append(ev.ops, Arithmetic(aof))), FALSE, 0)
    ELSE IF const_branch /\ f = 1 THEN
        Let(boolean_expr(ev, aof), LAMBDA expr :
            done(Evaluator(expr.ev.cwi, Append(expr.ev.ops, Arithmetic(expr.val))),
                 expr.panics, 0))
    ELSE IF const_branch /\ f = 2 THEN
        Let(boolean_expr(ev, aof), LAMBDA be :
        Let(expression_to_witness(be.ev, be.val), LAMBDA y_w :
        Let(expression_from_witness(y_w.val), LAMBDA y_expr :
        Let(mul_with_witness(y_w.ev, aof, y_expr), LAMBDA m :
        Let(subtract(m.val, 2, y_expr), LAMBDA eee :
            done(Evaluator(m.ev.cwi, Append(m.ev.ops, Arithmetic(eee))),
                 be.panics \/ m.panics, 0))))))
    ELSE IF const_branch /\ bit_size < U128Bits THEN
        LET r == bound_remainder(bit_size, f)
            aor == add(aof, r % FieldModulus, ExprOne)
        IN IF ~(bits + bit_size < max_num_bits) THEN done(ev, TRUE, 0)
           ELSE Let(expression_to_witness(ev, aor), LAMBDA witness :
                Let(try_range_constraint(witness.ev, witness.val, bit_size), LAMBDA t :
                    done(t.ev, FALSE, t.reports)))
    ELSE
        Let(expression_to_witness(ev, subtract(y, 1, aof)), LAMBDA w :
        Let(try_range_constraint(w.ev, w.val, bits), LAMBDA t :
            done(t.ev, FALSE, t.reports)))

-----------------------------------------------------------------------------
(* Satisfiability of a list of opcodes.  The witnesses are assigned in     *)
(* index order; an opcode is checked as soon as all its witnesses have a   *)
(* value.  A RANGE call on n bits holds when the value is below 2^n, a     *)
(* directive constrains nothing.                                           *)

\* bitwise AND (xor = FALSE) or XOR (xor = TRUE) of two naturals
RECURSIVE BitOp(_, _, _)
BitOp(xor, x, y) ==
    IF x = 0 /\ y = 0 THEN 0
    ELSE LET bx == x % 2
             by == y % 2
             bit == IF xor THEN (bx + by) % 2 ELSE bx * by
         IN bit + 2 * BitOp(xor, x \div 2, y \div 2)

OpMaxWit(op) ==
    IF op.kind = "Arithmetic" THEN MaxWitExpr(op.expr)
    ELSE IF op.kind = "RANGE" THEN op.witness
    ELSE IF op.kind \in {"AND", "XOR"} THEN Max2(Max2(op.witness, op.rhs), op.output)
    ELSE 0

Holds(op, asg) ==
    IF op.kind = "Arithmetic" THEN Eval(op.expr, asg) = 0
    ELSE IF op.kind = "RANGE" THEN asg[op.witness] < 2 ^ op.num_bits
    ELSE IF op.kind \in {"AND", "XOR"} THEN
        /\ asg[op.witness] < 2 ^ op.num_bits
        /\ asg[op.rhs] < 2 ^ op.num_bits
        /\ asg[op.output] = BitOp(op.kind = "XOR", asg[op.witness], asg[op.rhs])
    ELSE TRUE

RECURSIVE SatFrom(_, _, _)
SatFrom(ops, asg, total) ==
    IF Len(asg) >= total THEN TRUE
    ELSE \E v \in Field :
            LET asg2 == Append(asg, v) IN
            /\ \A i \in 1 .. Len(ops) :
                  (OpMaxWit(ops[i]) = Len(asg2)) => Holds(ops[i], asg2)
            /\ SatFrom(ops, asg2, total)

\* some values of the witnesses Len(inputs)+1 .. total satisfy every opcode
Satisfiable(ops, inputs, total) ==
    /\ \A i \in 1 .. Len(ops) : (OpMaxWit(ops[i]) <= Len(inputs)) => Holds(ops[i], inputs)
    /\ SatFrom(ops, inputs, total)

-----------------------------------------------------------------------------
(* InternalVar: [expression, cached_witness, id]; 0 stands for None in     *)
(* cached_witness and id.                                                  *)

InternalVar(e, w, id) == [expression |-> e, cached_witness |-> w, id |-> id]

\* InternalVar::from_constant
from_constant(c) == InternalVar(from_field(c), 0, 0)
\* InternalVar::from_witness
from_witness(w) == InternalVar(expression_from_witness(w), w, 0)
\* InternalVar::from(Expression)
from_expression(e) == InternalVar(e, optional_expression_to_witness(e), 0)
\* InternalVar::to_const: Some(q_c) for a constant expression
is_const_var(var) == is_const(var.expression)
\* InternalVar::set_id
set_id(var, id) == [var EXCEPT !.id = id]

\* InternalVar::get_or_compute_witness: [ev, var, val], val = 0 for None
get_or_compute_witness(ev, var, create_witness_for_const) ==
    IF var.cached_witness # 0 THEN [ev |-> ev, var |-> var, val |-> var.cached_witness]
    ELSE IF ~create_witness_for_const /\ is_const(var.expression)
    THEN [ev |-> ev, var |-> var, val |-> 0]
    ELSE Let(expression_to_witness(ev, var.expression), LAMBDA w :
             [ev |-> w.ev, var |-> [var EXCEPT !.cached_witness = w.val], val |-> w.val])

-----------------------------------------------------------------------------
(* acir_gen.rs: evaluate_bitwise.  A result is [ev, val, panics].          *)

\* the one-bit XOR: `subtract(&sum, FieldElement::from(2_i128), &mul)`
xor_as_or(sum, product) == subtract(sum, 1, product)
xor_identity(sum, product) == subtract(sum, 2, product)

evaluate_bitwise(ev, lhs, rhs, bit_size, op) ==
    LET l == lhs.expression
        r == rhs.expression
        sum == add(l, 1, r)
        a_w == get_or_compute_witness(ev, lhs, TRUE)
        b_w == get_or_compute_witness(a_w.ev, rhs, TRUE)
        result == add_witness_to_cs(b_w.ev)
        bits == IF bit_size % 2 = 1 THEN bit_size + 1 ELSE bit_size
        max == (2 ^ bits - 1) % FieldModulus
        or_a == create_intermediate_variable(result.ev, subtract(from_field(max), 1, l))
        or_b == create_intermediate_variable(or_a.ev, subtract(from_field(max), 1, r))
        ev_in == IF op = "Or" THEN or_b.ev ELSE result.ev
        gate == BitwiseCall(IF op = "Xor" THEN "XOR" ELSE "AND",
                            IF op = "Or" THEN or_a.val ELSE a_w.val,
                            IF op = "Or" THEN or_b.val ELSE b_w.val,
                            bits, result.val)
        done(e, v, p) == [ev |-> e, val |-> v, panics |-> p]
    IN
    IF is_const(l) /\ is_const(r) THEN done(ev, ExprZero, TRUE)
    ELSE IF bit_size = 1 THEN
        Let(mul_with_witness(ev, l, r), LAMBDA m :
            IF op = "And" THEN done(m.ev, m.val, m.panics)
            ELSE IF op = "Xor" THEN done(m.ev, xor_identity(sum, m.val), m.panics)
            ELSE done(m.ev, subtract(sum, 1, m.val), m.panics))
    ELSE IF ~(bits < max_num_bits - 1) THEN done(result.ev, ExprZero, TRUE)
    ELSE done(Evaluator(ev_in.cwi, Append(ev_in.ops, gate)),
              IF op = "Or"
              THEN subtract(from_field(max), 1, expression_from_witness(result.val))
              ELSE expression_from_witness(result.val),
              FALSE)

\* the constant simplify_bitwise simplifies with: <<field>> for Some(field),
\* <<>> for None; rhs is looked at only if lhs is not a constant
simplifiable_constant(lhs, rhs, max) ==
    IF is_const_var(lhs)
    THEN (IF lhs.expression.q_c = 0 \/ lhs.expression.q_c = max
          THEN <<lhs.expression.q_c>> ELSE <<>>)
    ELSE IF is_const_var(rhs) /\ (rhs.expression.q_c = 0 \/ rhs.expression.q_c = max)
    THEN <<rhs.expression.q_c>>
    ELSE <<>>

\* simplify_bitwise: [some, var, panics]; some is FALSE for None
simplify_bitwise(lhs, rhs, bit_size, op) ==
    LET max == (2 ^ bit_size - 1) % FieldModulus
        field == simplifiable_constant(lhs, rhs, max)
        var == IF is_const_var(lhs) /\ field # <<>> THEN rhs ELSE lhs
        some(v) == [some |-> TRUE, var |-> v, panics |-> FALSE]
    IN
    IF lhs = rhs THEN some(IF op = "Xor" THEN from_constant(0) ELSE lhs)
    ELSE IF ~(bit_size < max_num_bits) THEN
        [some |-> FALSE, var |-> from_constant(0), panics |-> TRUE]
    ELSE IF field # <<>> THEN
        IF op = "And" THEN some(IF field[1] = 0 THEN from_constant(field[1]) ELSE var)
        ELSE IF op = "Xor"
        THEN some(IF field[1] = 0 THEN var
                  ELSE from_expression(subtract(from_field(field[1]), 1, var.expression)))
        ELSE some(IF field[1] = 0 THEN var ELSE from_constant(field[1]))
    ELSE [some |-> FALSE, var |-> from_constant(0), panics |-> FALSE]

\* the arm of evaluate_binary for And, Or and Xor: [ev, val, panics, simplified]
bitwise_result(ev, l_c, r_c, bit_size, op) ==
    Let(simplify_bitwise(l_c, r_c, bit_size, op), LAMBDA simplified :
        IF simplified.panics
        THEN [ev |-> ev, val |-> ExprZero, panics |-> TRUE, simplified |-> FALSE]
        ELSE IF simplified.some
        THEN [ev |-> ev, val |-> simplified.var.expression, panics |-> FALSE,
              simplified |-> TRUE]
        ELSE Let(evaluate_bitwise(ev, l_c, r_c, bit_size, op), LAMBDA r :
            [ev |-> r.ev, val |-> r.val, panics |-> r.panics, simplified |-> FALSE]))

-----------------------------------------------------------------------------
(* The SSA context read by the ACIR generator: a function with the nodes   *)
(*   1: the constant 1 (native field)                                      *)
(*   2: a native-field variable with the ABI witness 1                     *)
(*   3: an unsigned variable of NodeBits bits without witness              *)
(*   4: a pointer to the array 1                                           *)
(* followed by the results of the instructions, whose ids start at         *)
(* FirstInsId, and one array of ArrayLen elements at address 0.            *)

Node(kind, value, witness, type, bits) ==
    [kind |-> kind, value |-> value, witness |-> witness, type |-> type, bits |-> bits]

NodeBits == CmpBits
FirstInsId == 5
ArrayLen == 2

\* bit size of the native field type: FieldElement::max_num_bits()
FieldBits == max_num_bits

\* SsaContext::try_get_node; the result of the instruction id has the type
\* and bit size given
try_get_node(id) ==
    IF id = 1 THEN Node("Const", 1, 0, "NativeField", FieldBits)
    ELSE IF id = 2 THEN Node("Obj", 0, 1, "NativeField", FieldBits)
    ELSE IF id = 3 THEN Node("Obj", 0, 0, "Unsigned", NodeBits)
    ELSE IF id = 4 THEN Node("Obj", 0, 0, "Pointer", 0)
    ELSE Node("Instr", 0, 0, "NativeField", FieldBits)

\* Memory::deref: the array a pointer node refers to, 0 for None
deref(id) == IF try_get_node(id).type = "Pointer" THEN 1 ELSE 0

\* MemArray::absolute_adr
absolute_adr(array_id, idx) == idx

\* MemoryMap::load_array_element_constant_index: [none, var]; an element
\* that was never stored is the constant 0
load_array_element_constant_index(mem, array_id, idx) ==
    IF idx >= ArrayLen THEN [none |-> TRUE, var |-> from_constant(0)]
    ELSE IF absolute_adr(array_id, idx) \in DOMAIN mem
    THEN [none |-> FALSE, var |-> mem[absolute_adr(array_id, idx)]]
    ELSE [none |-> FALSE, var |-> from_constant(0)]

-----------------------------------------------------------------------------
(* acir_gen.rs: Acir.  The generator state is [cache, mem, ev, pub]:       *)
(* arith_cache, memory_map, the Evaluator and its public_inputs.           *)

AcirState(cache, mem, ev, pub) == [cache |-> cache, mem |-> mem, ev |-> ev, pub |-> pub]

\* HashMap::insert
Insert(map, key, value) == (key :> value) @@ map

\* `if let Some(internal_var) = self.arith_cache.get(&id)`
cache_never_hit(st, id) == FALSE
cache_hit(st, id) == id \in DOMAIN st.cache

\* Acir::node_id_to_internal_var: [st, var, none]
node_id_to_internal_var(st, id) ==
    IF cache_hit(st, id) THEN [st |-> st, var |-> st.cache[id], none |-> FALSE]
    ELSE
      LET node == try_get_node(id)
          fresh == add_witness_to_cs(st.ev)
          cached(s, v) == [st |-> [s EXCEPT !.cache = Insert(s.cache, id, set_id(v, id))],
                           var |-> set_id(v, id), none |-> FALSE]
      IN
      IF node.kind = "Const" THEN cached(st, from_constant(node.value % FieldModulus))
      ELSE IF node.kind = "Obj" /\ node.type = "Pointer" THEN
          [st |-> st, var |-> from_constant(0), none |-> TRUE]
      ELSE IF node.kind = "Obj" /\ node.witness # 0 THEN cached(st, from_witness(node.witness))
      ELSE cached([st EXCEPT !.ev = fresh.ev], from_witness(fresh.val))

\* Acir::node_id_to_internal_var_unwrap: none is the ICE panic of expect
node_id_to_internal_var_unwrap(st, id) == node_id_to_internal_var(st, id)

\* An instruction is a record
\*   [id, op, operator, lhs, rhs, cond, array_id, res_type, res_bits, max_rhs_value]
\* where lhs also holds the operand of Constrain, Not and Cast, the index of
\* Load and Store and the list of the node ids of Return, and rhs holds the
\* value of Store.
Instruction(id, op, operator, lhs, rhs, cond, res_type, res_bits) ==
    [id |-> id, op |-> op, operator |-> operator, lhs |-> lhs, rhs |-> rhs, cond |-> cond,
     array_id |-> 1, res_type |-> res_type, res_bits |-> res_bits,
     max_rhs_value |-> 2 ^ NodeBits - 1]

\* `BinaryOp::Lt | BinaryOp::Lte => unimplemented!(..)`
field_comparison_outcome == "panic"

\* `None => unimplemented!(..)` / `None => todo!(..)` of Load and Store
dynamic_index_outcome == "panic"

\* `unreachable!("Invalid instruction: {:?}", i)` of the control-flow operations
control_flow_as_error == "Err"
control_flow_outcome == "panic"

\* the witnesses the ABI declares: those allocated before the generator runs
num_witnesses_abi_len == NumVars

\* Evaluator::is_private_abi_input: an ABI witness that is not declared public
is_private_abi_input(st, w) ==
    w <= num_witnesses_abi_len /\ ~(\E j \in 1 .. Len(st.pub) : st.pub[j] = w)

\* MemoryMap::load_array: the elements of the array, in order
load_array(mem, array_id) ==
    [j \in 1 .. ArrayLen |-> load_array_element_constant_index(mem, array_id, j - 1).var]

\* `if evaluator.is_private_abi_input(witness) { return Err(..) }`
returns_private(st, w) == FALSE
rejects_private(st, w) == is_private_abi_input(st, w)

\* the inner loop of Return, `for mut object in objects`: [st, outcome]
RECURSIVE return_objects(_, _, _)
return_objects(st, objects, j) ==
    IF j > Len(objects) THEN [st |-> st, outcome |-> "Ok"]
    ELSE Let(get_or_compute_witness(st.ev, objects[j], TRUE), LAMBDA w :
             IF rejects_private(st, w.val)
             THEN [st |-> [st EXCEPT !.ev = w.ev], outcome |-> "Err"]
             ELSE return_objects([st EXCEPT !.ev = w.ev, !.pub = Append(st.pub, w.val)],
                                 objects, j + 1))

\* the outer loop of Return, `for node_id in node_ids`: [st, outcome]
RECURSIVE return_nodes(_, _, _)
return_nodes(st, node_ids, n) ==
    IF n > Len(node_ids) THEN [st |-> st, outcome |-> "Ok"]
    ELSE IF deref(node_ids[n]) # 0 THEN
        Let(return_objects(st, load_array(st.mem, deref(node_ids[n])), 1), LAMBDA r :
            IF r.outcome = "Ok" THEN return_nodes(r.st, node_ids, n + 1) ELSE r)
    ELSE
        Let(node_id_to_internal_var_unwrap(st, node_ids[n]), LAMBDA v :
            IF v.none THEN [st |-> v.st, outcome |-> "panic"]
            ELSE Let(return_objects(v.st, <<v.var>>, 1), LAMBDA r :
                     IF r.outcome = "Ok" THEN return_nodes(r.st, node_ids, n + 1) ELSE r))

\* constraints::evaluate_zero_equality: [ev, val]; the directive gives the
\* inverse m of x (0 if x = 0), and y = x * m is 1 if x is not zero and 0
\* otherwise, which the gates y = x * m and x * y = x enforce
evaluate_zero_equality(ev, x_witness) ==
    Let(add_witness_to_cs(ev), LAMBDA m :
    Let(add_witness_to_cs(m.ev), LAMBDA y :
        [ev |-> Evaluator(y.ev.cwi,
                    y.ev.ops \o
                    <<Opcode("Invert", ExprZero, x_witness, 0, 0, m.val),
                      Arithmetic(Expr(<< <<1, x_witness, m.val>> >>,
                                      << <<FNeg(1), y.val>> >>, 0)),
                      Arithmetic(subtract(mul(expression_from_witness(x_witness),
                                              expression_from_witness(y.val)),
                                          1, expression_from_witness(x_witness)))>>),
         val |-> y.val]))

\* constraints::arrays_eq_predicate from the j-th element on: [ev, val]; the
\* sum of the zero-equality witnesses of the differences of the elements
RECURSIVE arrays_eq_predicate(_, _, _, _, _)
arrays_eq_predicate(ev, a_values, b_values, j, sum) ==
    IF j > Len(a_values) \/ j > Len(b_values) THEN [ev |-> ev, val |-> sum]
    ELSE Let(add_witness_to_cs(ev), LAMBDA diff_witness :
         Let(Evaluator(diff_witness.ev.cwi,
                 Append(diff_witness.ev.ops,
                        Arithmetic(subtract(subtract(a_values[j].expression, 1,
                                                     b_values[j].expression),
                                            1, expression_from_witness(diff_witness.val))))),
             LAMBDA ev1 :
         Let(evaluate_zero_equality(ev1, diff_witness.val), LAMBDA z :
            arrays_eq_predicate(z.ev, a_values, b_values, j + 1,
                                add(sum, 1, expression_from_witness(z.val))))))

\* Acir::array_eq
Acir_array_eq(st, array_a, array_b) ==
    arrays_eq_predicate(st.ev, load_array(st.mem, array_a), load_array(st.mem, array_b),
                        1, ExprZero)

\* the end of both branches of evaluate_neq: a witness for x, which must not
\* be constant, and its zero equality
zero_equality_of(st, x) ==
    Let(get_or_compute_witness(st.ev, from_expression(x), FALSE), LAMBDA x_witness :
        IF x_witness.val = 0 THEN [st |-> st, val |-> ExprZero, outcome |-> "panic"]
        ELSE Let(evaluate_zero_equality(x_witness.ev, x_witness.val), LAMBDA y :
            [st |-> [st EXCEPT !.ev = y.ev], val |-> expression_from_witness(y.val),
             outcome |-> "Ok"]))

\* Acir::evaluate_neq: [st, val, outcome]; l and r are the results of
\* node_id_to_internal_var on lhs and rhs
evaluate_neq(st, lhs, rhs, l, r) ==
    IF deref(lhs) # 0 /\ deref(rhs) # 0 THEN
        IF ~l.none \/ ~r.none THEN [st |-> st, val |-> ExprZero, outcome |-> "panic"]
        ELSE Let(Acir_array_eq(st, deref(lhs), deref(rhs)), LAMBDA x :
            zero_equality_of([st EXCEPT !.ev = x.ev], x.val))
    ELSE IF l.none \/ r.none THEN [st |-> st, val |-> ExprZero, outcome |-> "panic"]
    ELSE IF is_const_var(l.var) /\ is_const_var(r.var) THEN
        [st |-> st,
         val |-> IF l.var.expression.q_c = r.var.expression.q_c THEN ExprZero ELSE ExprOne,
         outcome |-> "Ok"]
    ELSE zero_equality_of(st, subtract(l.var.expression, 1, r.var.expression))

\* Acir::evaluate_eq
evaluate_eq_as_neq(st, lhs, rhs, l, r) == evaluate_neq(st, lhs, rhs, l, r)
evaluate_eq(st, lhs, rhs, l, r) ==
    Let(evaluate_neq(st, lhs, rhs, l, r), LAMBDA neq :
        [neq EXCEPT !.val = subtract(ExprOne, 1, neq.val)])

\* Acir::evaluate_binary: [st, var, outcome]; outcome is "Ok" or "panic"
evaluate_binary(st, binary) ==
    LET l == node_id_to_internal_var_unwrap(st, binary.lhs)
        r == node_id_to_internal_var_unwrap(l.st, binary.rhs)
        s2 == r.st
        l_c == l.var.expression
        r_c == r.var.expression
        r_size == try_get_node(binary.rhs).bits
        done(s, e, o) == [st |-> s, var |-> from_expression(e), outcome |-> o]
    IN
    IF binary.operator \in {"Lt", "Lte"} THEN done(st, ExprZero, field_comparison_outcome)
    ELSE IF binary.operator = "Eq" THEN
        Let(evaluate_eq(s2, binary.lhs, binary.rhs, l, r), LAMBDA e :
            done(e.st, e.val, e.outcome))
    ELSE IF binary.operator = "Ne" THEN
        Let(evaluate_neq(s2, binary.lhs, binary.rhs, l, r), LAMBDA e :
            done(e.st, e.val, e.outcome))
    ELSE IF l.none \/ r.none THEN done(s2, ExprZero, "panic")
    ELSE IF binary.operator = "Add" THEN done(s2, add(l_c, 1, r_c), "Ok")
    ELSE IF binary.operator = "Sub" THEN
        IF binary.res_type = "NativeField" THEN done(s2, subtract(l_c, 1, r_c), "Ok")
        ELSE
          LET r_big == 2 ^ r_size
              k0 == binary.max_rhs_value \div r_big
              k1 == IF binary.max_rhs_value % r_big # 0 THEN k0 + 1 ELSE k0
              f == (k1 * r_big) % FieldModulus
              sub_expr == subtract(l_c, 1, r_c)
              shifted == [sub_expr EXCEPT !.q_c = FAdd(sub_expr.q_c, f)]
          IN IF is_const(l_c) /\ binary.max_rhs_value <= l_c.q_c
             THEN done(s2, subtract(l_c, 1, r_c), "Ok")
             ELSE done(s2, shifted, "Ok")
    ELSE \* Mul
        Let(mul_with_witness(s2.ev, l_c, r_c), LAMBDA m :
            done([s2 EXCEPT !.ev = m.ev], m.val, IF m.panics THEN "panic" ELSE "Ok"))

\* Acir::evaluate_instruction: [st, outcome], outcome "Ok", "Err" or "panic"
evaluate_instruction(st, i) ==
    LET \* `if let Some(mut output) = output { .. arith_cache.insert(ins.id, output) }`
        with_output(s, v) ==
            [st |-> [s EXCEPT !.cache = Insert(s.cache, i.id, set_id(v, i.id))],
             outcome |-> "Ok"]
        stop(s, o) == [st |-> s, outcome |-> o]
        v1 == node_id_to_internal_var_unwrap(st, i.lhs)
        v2 == node_id_to_internal_var_unwrap(v1.st, i.rhs)
    IN
    IF i.op = "Nop" THEN stop(st, "Ok")
    ELSE IF i.op = "Binary" THEN
        Let(evaluate_binary(st, i), LAMBDA r :
            IF r.outcome = "Ok" THEN with_output(r.st, r.var) ELSE stop(r.st, r.outcome))
    ELSE IF i.op = "Constrain" THEN
        IF v1.none THEN stop(v1.st, "panic")
        ELSE LET gate == Arithmetic(subtract(ExprOne, 1, v1.var.expression))
                 ev1 == Evaluator(v1.st.ev.cwi, Append(v1.st.ev.ops, gate))
             IN with_output([v1.st EXCEPT !.ev = ev1], v1.var)
    ELSE IF i.op = "Not" THEN
        IF v1.none THEN stop(v1.st, "panic")
        ELSE with_output(v1.st,
                 from_expression(subtract(from_field((2 ^ i.res_bits - 1) % FieldModulus),
                                          1, v1.var.expression)))
    ELSE IF i.op = "Cast" THEN
        IF v1.none THEN stop(v1.st, "Ok") ELSE with_output(v1.st, v1.var)
    ELSE IF i.op = "Return" THEN return_nodes(st, i.lhs, 1)
    ELSE IF i.op = "Cond" THEN
        Let(node_id_to_internal_var_unwrap(st, i.cond), LAMBDA c :
        Let(node_id_to_internal_var_unwrap(c.st, i.lhs), LAMBDA l :
        Let(node_id_to_internal_var_unwrap(l.st, i.rhs), LAMBDA r :
        Let(subtract(l.var.expression, 1, r.var.expression), LAMBDA sub :
        Let(mul_with_witness(r.st.ev, c.var.expression, sub), LAMBDA m :
            IF c.none \/ l.none \/ r.none \/ m.panics THEN stop(r.st, "panic")
            ELSE with_output([r.st EXCEPT !.ev = m.ev],
                             from_expression(add(m.val, 1, r.var.expression))))))))
    ELSE IF i.op = "Load" THEN
        IF v1.none THEN stop(v1.st, "panic")
        ELSE IF is_const_var(v1.var) THEN
            LET e == load_array_element_constant_index(v1.st.mem, i.array_id,
                                                       v1.var.expression.q_c)
            IN IF e.none THEN stop(v1.st, "panic") ELSE with_output(v1.st, e.var)
        ELSE stop(v1.st, dynamic_index_outcome)
    ELSE IF i.op = "Store" THEN
        IF v1.none \/ v2.none THEN stop(v2.st, "panic")
        ELSE IF is_const_var(v1.var) THEN
            stop([v2.st EXCEPT !.mem = Insert(v2.st.mem,
                                              absolute_adr(i.array_id, v1.var.expression.q_c),
                                              v2.var)],
                 "Ok")
        ELSE stop(v2.st, dynamic_index_outcome)
    ELSE \* Jne, Jeq, Jmp, Phi, Call, Result: unreachable!
        stop(st, control_flow_outcome)

-----------------------------------------------------------------------------
(* brillig_gen.rs: the Brillig opcodes and BrilligArtefact.  Offsets into  *)
(* byte_code count from 0 as in the source: the opcode at offset j is      *)
(* byte_code[j + 1].                                                       *)

PREFIX_LEN == 3

\* RegisterMemIndex
Register(i) == [reg |-> i]
Constant(c) == [const |-> c]

\* BrilligOpcode
JMP(destination) == [op |-> "JMP", destination |-> destination]
JMPIFNOT(condition, destination) ==
    [op |-> "JMPIFNOT", condition |-> condition, destination |-> destination]
JMPIF(condition, destination) ==
    [op |-> "JMPIF", condition |-> condition, destination |-> destination]
PushStack(source) == [op |-> "PushStack", source |-> source]
Trap == [op |-> "Trap"]
Stop == [op |-> "Stop"]
CallBack == [op |-> "CallBack"]
Mov(destination, source) == [op |-> "Mov", destination |-> destination, source |-> source]
BinaryOp(result_type, op, lhs, rhs, result) ==
    [op |-> "BinaryOp", result_type |-> result_type, operator |-> op,
     lhs |-> lhs, rhs |-> rhs, result |-> result]
Load(destination, array_id_reg, index) ==
    [op |-> "Load", destination |-> destination, array_id_reg |-> array_id_reg,
     index |-> index]
Store(source, array_id_reg, index) ==
    [op |-> "Store", source |-> source, array_id_reg |-> array_id_reg, index |-> index]
Oracle(inputs, outputs) == [op |-> "Oracle", inputs |-> inputs, outputs |-> outputs]

BrilligArtefact(functions_to_process, code, to_fix, blocks) ==
    [functions_to_process |-> functions_to_process, byte_code |-> code,
     to_fix |-> to_fix, blocks |-> blocks]

\* BrilligArtefact::default()
DefaultArtefact == BrilligArtefact({}, <<>>, <<>>, <<>>)

\* BlockId::dummy()
DummyBlock == 0

\* the outcome of a linker step: [st, self], st "Ok" or "panic"
Linked(st, self) == [st |-> st, self |-> self]

\* self.byte_code[jump] = code
SetCode(self, jump, code) ==
    [self EXCEPT !.byte_code = [self.byte_code EXCEPT ![jump + 1] = code]]

\* the return address a call pushes: the offset after its JMP
return_address_unset(jump) == 0
return_address(jump) == jump + 2

\* the destination of a JMPIFNOT that was emitted with a destination
relative_destination(self, destination) == destination + Len(self.byte_code)

\* self.blocks[block] of a block without an offset: the index panics
unresolved_kept(self) == Linked("Ok", self)
unresolved_block(self) == Linked("panic", self)

\* one iteration of the loop of fix_jumps
fix_jump(self, jump, block) ==
    IF jump >= Len(self.byte_code) THEN Linked("panic", self)
    ELSE Let(self.byte_code[jump + 1], LAMBDA code :
        IF code.op \in {"JMP", "JMPIF"}
        THEN IF code.destination # 0 THEN Linked("panic", self)
             ELSE IF block \notin DOMAIN self.blocks THEN unresolved_block(self)
             ELSE Linked("Ok", SetCode(self, jump,
                                       [code EXCEPT !.destination = self.blocks[block]]))
        ELSE IF code.op = "JMPIFNOT"
        THEN IF code.destination = 0
             THEN IF block \notin DOMAIN self.blocks
                  THEN unresolved_block(self)
                  ELSE Linked("Ok", SetCode(self, jump,
                                            [code EXCEPT !.destination = self.blocks[block]]))
             ELSE Linked("Ok", SetCode(self, jump,
                      [code EXCEPT !.destination =
                                       relative_destination(self, code.destination)]))
        ELSE IF code.op = "PushStack"
        THEN IF code.source # Constant(0)
             THEN Linked("panic", self)
             ELSE Linked("Ok", SetCode(self, jump, PushStack(Constant(return_address(jump)))))
        ELSE Linked("panic", self))

\* BrilligArtefact::fix_jumps, from the n-th entry of to_fix on; to_fix itself
\* is only read
RECURSIVE fix_jumps_from(_, _)
fix_jumps_from(self, n) ==
    IF n > Len(self.to_fix) THEN Linked("Ok", self)
    ELSE Let(fix_jump(self, self.to_fix[n][1], self.to_fix[n][2]), LAMBDA r :
        IF r.st = "Ok" THEN fix_jumps_from(r.self, n + 1) ELSE r)

fix_jumps(self) == fix_jumps_from(self, 1)

\* the three opcodes link_with puts in front of an empty buffer
PrefixStopFirst == <<JMP(PREFIX_LEN), Stop, Trap>>
Prefix == <<JMP(PREFIX_LEN), Trap, Stop>>

ShiftToFix(to_fix, offset) ==
    [j \in 1 .. Len(to_fix) |-> <<to_fix[j][1] + offset, to_fix[j][2]>>]

InsertBlocks(blocks, added, offset) ==
    [bl \in DOMAIN blocks \cup DOMAIN added |->
        IF bl \in DOMAIN added THEN added[bl] + offset ELSE blocks[bl]]

\* BrilligArtefact::link_with
link_with(self, obj) ==
    IF obj.byte_code = <<>> THEN Linked("panic", self)
    ELSE Let(IF self.byte_code = <<>> THEN Prefix ELSE self.byte_code, LAMBDA code :
        Linked("Ok", [self EXCEPT
            !.to_fix = self.to_fix \o ShiftToFix(obj.to_fix, Len(code)),
            !.blocks = InsertBlocks(self.blocks, obj.blocks, Len(code)),
            !.byte_code = code \o obj.byte_code]))

-----------------------------------------------------------------------------
(* brillig_gen.rs: BrilligGen.  The generator is [obj, max_register,       *)
(* functions, noir_call]; a step of it yields [st, gen] with st "Ok",      *)
(* "Err" (a RuntimeError) or "panic".  The SsaContext it reads is          *)
(*   [funcs, blocks, instructions]                                         *)
(* with funcs the function table, blocks the control-flow graph and        *)
(* instructions the instruction of each instruction id.  An instruction    *)
(* keeps the layout of the constraint backend; in addition lhs holds the   *)
(* condition of Jne and Jeq, the callee of Call and UnsafeCall, the call   *)
(* instruction of Result and the block arguments of Phi, rhs holds the     *)
(* target of Jne, Jeq and Jmp and the arguments of Call and UnsafeCall,    *)
(* and cond holds the returned_arrays of Call and the returned_values of   *)
(* UnsafeCall.  The entry block of function f is block f.                  *)

BrilligGen(obj, max_register, functions, noir_call) ==
    [obj |-> obj, max_register |-> max_register, functions |-> functions,
     noir_call |-> noir_call]

\* BrilligGen::default()
DefaultGen == BrilligGen(DefaultArtefact, 0, <<>>, <<>>)

Generated(st, gen) == [st |-> st, gen |-> gen]

\* BrilligGen::push_code
push_code(gen, code) == [gen EXCEPT !.obj.byte_code = Append(@, code)]

\* BrilligGen::code_len
code_len(gen) == Len(gen.obj.byte_code)

\* self.obj.to_fix.push((self.code_len(), block))
push_to_fix(gen, block) == [gen EXCEPT !.obj.to_fix = Append(@, <<code_len(gen), block>>)]

\* BrilligGen::get_tmp_register: [gen, reg]
get_tmp_register(gen) ==
    [gen |-> [gen EXCEPT !.max_register = @ + 1], reg |-> gen.max_register + 1]

\* SsaContext::try_get_instruction: the instruction, NoIns for None
NoIns == [id |-> 0, op |-> "none"]

try_get_instruction(ctx, id) ==
    IF id \in DOMAIN ctx.instructions THEN ctx.instructions[id] ELSE NoIns

\* SsaContext::object_type: [type, bits]
object_type(ctx, id) ==
    IF id \in DOMAIN ctx.instructions
    THEN [type |-> ctx.instructions[id].res_type, bits |-> ctx.instructions[id].res_bits]
    ELSE [type |-> try_get_node(id).type, bits |-> try_get_node(id).bits]

\* BrilligGen::node_2_register: [gen, reg]
node_2_register(gen, node) ==
    IF try_get_node(node).kind = "Const"
    THEN [gen |-> gen, reg |-> Constant(try_get_node(node).value)]
    ELSE Let([gen EXCEPT !.max_register = Max2(@, node)], LAMBDA g :
        [gen |-> IF try_get_node(node).kind = "Obj" /\ deref(node) # 0
                 THEN push_code(g, Mov(Register(node), Constant(deref(node))))
                 ELSE g,
         reg |-> Register(node)])

\* BrilligGen::memcpy: copies the len elements of a into b, from the k-th on
RECURSIVE memcpy(_, _, _, _, _)
memcpy(gen, src, dst, len, idx) ==
    IF idx >= len THEN gen
    ELSE Let(get_tmp_register(gen), LAMBDA t :
        memcpy(push_code(push_code(t.gen, Load(Register(t.reg), src, Constant(idx))),
                         Store(Register(t.reg), dst, Constant(idx))),
               src, dst, len, idx + 1))

\* the binary operators that translate to one opcode, and its operation
SimpleBinaryOps ==
    {"Add", "Sub", "Mul", "Udiv", "Sdiv", "Div", "Ule", "Lte", "Sle", "Ult", "Slt", "Lt",
     "And", "Or", "Xor", "Shl", "Shr"}

brillig_binary_op(operator) ==
    IF operator \in {"Udiv", "Sdiv", "Div"} THEN "Div"
    ELSE IF operator \in {"Ule", "Lte", "Sle"} THEN "CmpLte"
    ELSE IF operator \in {"Ult", "Slt", "Lt"} THEN "CmpLt"
    ELSE operator

\* the loop of the comparison of two arrays of length len, from element i on
RECURSIVE array_eq_loop(_, _, _, _, _, _, _, _)
array_eq_loop(gen, a_id, b_id, cmp_i, a_i, b_i, len, i) ==
    IF i >= len THEN gen
    ELSE Let(push_code(push_code(push_code(gen,
                 Load(Register(a_i), Constant(a_id), Constant(i))),
                 Load(Register(b_i), Constant(b_id), Constant(i))),
                 BinaryOp([type |-> "Unsigned", bits |-> 32], "CmpEq",
                          Register(a_i), Register(b_i), cmp_i)), LAMBDA g :
        array_eq_loop(push_code(push_to_fix(g, DummyBlock),
                                JMPIFNOT(Register(cmp_i), 4 * len + 1)),
                      a_id, b_id, cmp_i, a_i, b_i, len, i + 1))

\* BrilligGen::binary, after its operands are in registers
binary_op(gen, operator, lhs_id, rhs_id, lhs, rhs, result_type, result) ==
    IF operator \in SimpleBinaryOps
    THEN Generated("Ok", push_code(gen, BinaryOp(result_type, brillig_binary_op(operator),
                                                 lhs, rhs, result)))
    ELSE IF operator = "Urem"
    THEN Let(get_tmp_register(gen), LAMBDA q :
        Generated("Ok",
            push_code(push_code(push_code(q.gen,
                BinaryOp(result_type, "Div", lhs, rhs, q.reg)),
                BinaryOp(result_type, "Mul", Register(q.reg), rhs, q.reg)),
                BinaryOp(result_type, "Sub", lhs, Register(q.reg), result))))
    ELSE IF operator = "Eq"
    THEN IF deref(lhs_id) # 0
         THEN Let(push_code(gen, Mov(Register(result), Constant(0))), LAMBDA g0 :
             IF deref(rhs_id) # 0   \* every array has ArrayLen elements
             THEN Let(get_tmp_register(g0), LAMBDA cmp_i :
                  Let(get_tmp_register(cmp_i.gen), LAMBDA a_i :
                  Let(get_tmp_register(a_i.gen), LAMBDA b_i :
                      Generated("Ok",
                          push_code(array_eq_loop(b_i.gen, deref(lhs_id), deref(rhs_id),
                                                  cmp_i.reg, a_i.reg, b_i.reg, ArrayLen, 0),
                                    Mov(Register(result), Constant(1)))))))
             ELSE Generated("Ok", g0))
         ELSE Generated("Ok", push_code(gen,
                  BinaryOp([type |-> "Unsigned", bits |-> 1], "CmpEq", lhs, rhs, result)))
    ELSE IF operator = "Ne"
    THEN Generated("Ok", push_code(push_code(gen,
             BinaryOp([type |-> "Unsigned", bits |-> 1], "CmpEq", lhs, rhs, result)),
             BinaryOp([type |-> "Unsigned", bits |-> 1], "Sub", Constant(1),
                      Register(result), result)))
    ELSE \* SafeAdd, SafeSub, SafeMul, Srem: todo!(); Assign: unreachable!()
        Generated("panic", gen)

\* BrilligGen::binary; object_type_2_typ is todo!() for an array pointer
binary(gen, ctx, bin, id, res_type) ==
    Let(node_2_register(gen, bin.lhs), LAMBDA lhs :
    Let(node_2_register(lhs.gen, bin.rhs), LAMBDA rhs :
        IF res_type.type = "Pointer" THEN Generated("panic", rhs.gen)
        ELSE Let(node_2_register(rhs.gen, id), LAMBDA result :
            binary_op(result.gen, bin.operator, bin.lhs, bin.rhs,
                      lhs.reg, rhs.reg, res_type, result.reg.reg))))

\* NodeId::dummy()
DummyNode == 0

\* SsaContext::try_get_func_id: the index of the function, 0 for None
try_get_func_id(ctx, func) == IF func \in DOMAIN ctx.funcs THEN func ELSE 0

\* SsaContext::ssa_func
ssa_func(ctx, func_id) == ctx.funcs[func_id]

\* the registers of the nodes, from the i-th on: [gen, regs]
RECURSIVE nodes_2_registers(_, _, _, _)
nodes_2_registers(gen, nodes, i, regs) ==
    IF i > Len(nodes) THEN [gen |-> gen, regs |-> regs]
    ELSE Let(node_2_register(gen, nodes[i]), LAMBDA r :
        nodes_2_registers(r.gen, nodes, i + 1, Append(regs, r.reg)))

\* BrilligGen::get_oracle_abi, the inputs: [gen, regs]
RECURSIVE oracle_inputs(_, _, _, _)
oracle_inputs(gen, arguments, i, inputs) ==
    IF i > Len(arguments) THEN [gen |-> gen, regs |-> inputs]
    ELSE IF deref(arguments[i]) # 0
    THEN oracle_inputs(gen, arguments, i + 1,
             Append(inputs, [start |-> Constant(deref(arguments[i])), length |-> ArrayLen]))
    ELSE Let(node_2_register(gen, arguments[i]), LAMBDA r :
        oracle_inputs(r.gen, arguments, i + 1, Append(inputs, r.reg)))

\* the loop of unsafe_call that moves the inputs to the arguments of the callee
RECURSIVE call_arguments(_, _, _, _)
call_arguments(gen, inputs, arguments, i) ==
    IF i > Len(inputs) \/ i > Len(arguments) THEN Generated("Ok", gen)
    ELSE Let(node_2_register(gen, arguments[i]), LAMBDA arg_reg :
         Let(node_2_register(arg_reg.gen, inputs[i]), LAMBDA in_reg :
            IF deref(inputs[i]) # 0 /\ deref(arguments[i]) # 0
            THEN call_arguments(memcpy(in_reg.gen, Constant(deref(arguments[i])),
                                       Constant(deref(inputs[i])), ArrayLen, 0),
                                inputs, arguments, i + 1)
            ELSE IF deref(inputs[i]) = 0 /\ deref(arguments[i]) = 0
            THEN call_arguments(push_code(in_reg.gen, Mov(in_reg.reg, arg_reg.reg)),
                                inputs, arguments, i + 1)
            ELSE Generated("panic", in_reg.gen)))

\* the loop of unsafe_call that moves the registers 0.. to the returned values
RECURSIVE call_results(_, _, _, _, _, _, _)
call_results(gen, ctx, returned_values, returned_arrays, ret_i, i, j) ==
    IF ret_i >= Len(returned_values) + Len(returned_arrays) THEN Generated("Ok", gen)
    ELSE IF j < Len(returned_arrays) /\ returned_arrays[j + 1][2] = ret_i
    THEN call_results(memcpy(gen, Register(ret_i), Constant(returned_arrays[j + 1][1]),
                             ArrayLen, 0),
                      ctx, returned_values, returned_arrays, ret_i + 1, i, j + 1)
    ELSE IF i >= Len(returned_values) THEN Generated("panic", gen)
    ELSE IF object_type(ctx, returned_values[i + 1]).type = "Pointer"
    THEN call_results(memcpy(gen, Register(ret_i), Constant(deref(returned_values[i + 1])),
                             ArrayLen, 0),
                      ctx, returned_values, returned_arrays, ret_i + 1, i + 1, j)
    ELSE Let(node_2_register(gen, returned_values[i + 1]), LAMBDA destination :
        call_results(push_code(destination.gen, Mov(destination.reg, Register(ret_i))),
                     ctx, returned_values, returned_arrays, ret_i + 1, i + 1, j))

\* the address unsafe_call jumps to: that of a function already placed
func_adr(gen, func) == IF func \in DOMAIN gen.functions THEN gen.functions[func] ELSE 0

\* the call sequence of unsafe_call: return address, jump, results
call_sequence(gen, ctx, func, returned_values, returned_arrays) ==
    Let(push_code(push_to_fix(gen, DummyBlock), PushStack(Constant(0))), LAMBDA g1 :
    Let(IF func_adr(gen, func) = 0
        THEN [push_to_fix(g1, ssa_func(ctx, try_get_func_id(ctx, func)).entry_block)
                 EXCEPT !.obj.functions_to_process = @ \cup {func}]
        ELSE g1, LAMBDA g2 :
        call_results(push_code(g2, JMP(func_adr(gen, func))), ctx,
                     returned_values, returned_arrays, 0, 0, 0)))

\* BrilligGen::unsafe_call
unsafe_call(gen, ctx, func, arguments, returned_values, returned_arrays) ==
    IF try_get_func_id(ctx, func) = 0 THEN Generated("Ok", gen)
    ELSE IF ssa_func(ctx, try_get_func_id(ctx, func)).kind = "Oracle"
    THEN Let(nodes_2_registers(gen, returned_values, 1, <<>>), LAMBDA outputs :
         Let(oracle_inputs(outputs.gen, arguments, 1, <<>>), LAMBDA inputs :
         Let(nodes_2_registers(inputs.gen, returned_values, 1, <<>>), LAMBDA abi :
             Generated("Ok", push_code(abi.gen, Oracle(inputs.regs, abi.regs))))))
    ELSE Let(call_arguments(gen, ssa_func(ctx, try_get_func_id(ctx, func)).arguments,
                            arguments, 1), LAMBDA g :
        IF g.st # "Ok" THEN g
        ELSE call_sequence(g.gen, ctx, func, returned_values, returned_arrays))

\* the call is materialized when the Results recorded and the returned arrays
\* make up the results of the callee
call_always_complete(gen, call, callee) == TRUE
call_complete(gen, call, callee) ==
    Len(gen.noir_call) + Len(call.cond) = Len(callee.result_types) + 1

\* BrilligGen::try_process_call
try_process_call(gen, ctx) ==
    IF gen.noir_call = <<>> THEN Generated("Ok", gen)
    ELSE Let(try_get_instruction(ctx, gen.noir_call[1]), LAMBDA call :
        IF call.op # "Call" THEN Generated("Ok", gen)
        ELSE IF try_get_func_id(ctx, call.lhs) = 0 THEN Generated("Ok", gen)
        ELSE IF call_complete(gen, call, ssa_func(ctx, try_get_func_id(ctx, call.lhs)))
        THEN Let(unsafe_call(gen, ctx, call.lhs, call.rhs, Tail(gen.noir_call), call.cond),
                 LAMBDA r : Generated(r.st, [r.gen EXCEPT !.noir_call = <<>>]))
        ELSE Generated("Ok", gen))

\* the outcome of the operations the generator does not translate
unsupported_panics == "panic"
unsupported_outcome == "Err"

\* the Cast arm of instruction_to_bc
cast_to_bc(gen, ctx, instr) ==
    Let(node_2_register(gen, instr.id), LAMBDA ins_reg :
    Let(node_2_register(ins_reg.gen, instr.lhs), LAMBDA arg :
    Let(object_type(ctx, instr.lhs), LAMBDA from :
        IF from.type = instr.res_type /\ from.type \in {"Signed", "Unsigned"}
        THEN IF from.bits <= instr.res_bits
             THEN Generated("Ok", push_code(arg.gen, Mov(ins_reg.reg, arg.reg)))
             ELSE Generated("Ok", push_code(arg.gen,
                      BinaryOp([type |-> instr.res_type, bits |-> instr.res_bits], "Add",
                               arg.reg, Constant(0), ins_reg.reg.reg)))
        ELSE IF from.type = "Unsigned" /\ instr.res_type = "NativeField"
        THEN Generated("Ok", push_code(arg.gen, Mov(ins_reg.reg, arg.reg)))
        ELSE IF from.type = "NativeField" /\ instr.res_type = "Unsigned"
        THEN Generated("Ok", push_code(arg.gen,
                 BinaryOp([type |-> "Unsigned", bits |-> instr.res_bits], "Add",
                          arg.reg, Constant(0), ins_reg.reg.reg)))
        ELSE IF \/ from.type = "Unsigned" /\ instr.res_type = "Signed"
                \/ from.type = "Signed" /\ instr.res_type = "Unsigned"
                \/ from.type = "Signed" /\ instr.res_type = "NativeField"
                \/ from.type = "NativeField" /\ instr.res_type = "Signed"
        THEN Generated(unsupported_outcome, arg.gen)
        ELSE Generated("panic", arg.gen))))

\* the Return arm of instruction_to_bc, from the i-th node on
RECURSIVE return_to_bc(_, _, _)
return_to_bc(gen, nodes, i) ==
    IF i >= Len(nodes) THEN gen
    ELSE Let(node_2_register(gen, nodes[i + 1]), LAMBDA ret_register :
        return_to_bc(push_code(ret_register.gen, Mov(Register(i), ret_register.reg)),
                     nodes, i + 1))

\* BrilligGen::instruction_to_bc
instruction_to_bc(gen, ctx, instr) ==
    IF instr.op = "Binary"
    THEN binary(gen, ctx, instr, instr.id, [type |-> instr.res_type, bits |-> instr.res_bits])
    ELSE IF instr.op = "Cast" THEN cast_to_bc(gen, ctx, instr)
    ELSE IF instr.op = "Not"
    THEN Let(node_2_register(gen, instr.lhs), LAMBDA lhs :
        IF instr.res_type = "Pointer" THEN Generated("panic", lhs.gen)
        ELSE Let(node_2_register(lhs.gen, instr.id), LAMBDA result :
            IF instr.res_type = "Unsigned"
            THEN Generated("Ok", push_code(result.gen,
                     BinaryOp([type |-> instr.res_type, bits |-> instr.res_bits], "Xor", lhs.reg,
                              Constant((2 ^ instr.res_bits - 1) % FieldModulus),
                              result.reg.reg)))
            ELSE Generated("Ok", result.gen)))
    ELSE IF instr.op = "Constrain"
    THEN Let(node_2_register(gen, instr.lhs), LAMBDA condition :
        Generated("Ok", push_code(condition.gen, JMPIFNOT(condition.reg, 1))))
    ELSE IF instr.op \in {"Jne", "Jeq", "Jmp", "Truncate", "Cond"}
    THEN Generated("panic", gen)
    ELSE IF instr.op = "Call"
    THEN IF gen.noir_call # <<>> THEN Generated(unsupported_outcome, gen)
         ELSE try_process_call([gen EXCEPT !.noir_call = Append(@, instr.id)], ctx)
    ELSE IF instr.op = "Return"
    THEN IF Len(instr.lhs) = 1 /\ instr.lhs[1] = DummyNode THEN Generated("Ok", gen)
         ELSE Generated("Ok", return_to_bc(gen, instr.lhs, 0))
    ELSE IF instr.op = "Result"
    THEN IF gen.noir_call = <<>> THEN Generated("panic", gen)
         ELSE IF instr.lhs # gen.noir_call[1] THEN Generated("panic", gen)
         ELSE try_process_call([gen EXCEPT !.noir_call = Append(@, instr.id)], ctx)
    ELSE IF instr.op = "Load"
    THEN Let(node_2_register(gen, instr.lhs), LAMBDA idx_reg :
         Let(node_2_register(idx_reg.gen, instr.id), LAMBDA ins_reg :
            Generated("Ok", push_code(ins_reg.gen,
                Load(ins_reg.reg, Constant(instr.array_id), idx_reg.reg)))))
    ELSE IF instr.op = "Store"
    THEN IF instr.lhs = DummyNode /\ instr.rhs = DummyNode THEN Generated("Ok", gen)
         ELSE Let(node_2_register(gen, instr.lhs), LAMBDA idx_reg :
              Let(node_2_register(idx_reg.gen, instr.rhs), LAMBDA source :
                 Generated("Ok", push_code(source.gen,
                     Store(source.reg, Constant(instr.array_id), idx_reg.reg)))))
    ELSE IF instr.op = "Intrinsic" THEN Generated(unsupported_outcome, gen)
    ELSE IF instr.op = "UnsafeCall"
    THEN unsafe_call(gen, ctx, instr.lhs, instr.rhs, instr.cond, <<>>)
    ELSE \* Phi, Nop
        Generated("Ok", gen)

\* BasicBlock::is_join
is_join(block) == block.kind \in {"ForJoin", "IfJoin"}

\* the Mov of one Phi instruction of the join block, for the arguments that
\* come from current, from the j-th argument on
RECURSIVE phi_arguments(_, _, _, _, _)
phi_arguments(gen, phi_id, block_args, current, j) ==
    IF j > Len(block_args) THEN gen
    ELSE IF block_args[j][2] = current
    THEN Let(node_2_register(gen, phi_id), LAMBDA destination :
         Let(node_2_register(destination.gen, block_args[j][1]), LAMBDA source :
            phi_arguments(push_code(source.gen, Mov(destination.reg, source.reg)),
                          phi_id, block_args, current, j + 1)))
    ELSE phi_arguments(gen, phi_id, block_args, current, j + 1)

\* the loop of handle_phi_instructions over the instructions of left
RECURSIVE phi_instructions(_, _, _, _, _)
phi_instructions(gen, ctx, current, ids, i) ==
    IF i > Len(ids) THEN gen
    ELSE Let(try_get_instruction(ctx, ids[i]), LAMBDA phi :
        IF phi.op \in {"none", "Nop"} THEN phi_instructions(gen, ctx, current, ids, i + 1)
        ELSE IF phi.op = "Phi"
        THEN phi_instructions(phi_arguments(gen, phi.id, phi.lhs, current, 1),
                              ctx, current, ids, i + 1)
        ELSE gen)

\* BrilligGen::handle_phi_instructions
handle_phi_instructions(gen, ctx, current, left) ==
    IF is_join(ctx.blocks[left])
    THEN phi_instructions(gen, ctx, current, ctx.blocks[left].instructions, 1)
    ELSE gen

\* the outcome of process_block: [st, gen, children]
Processed(st, gen, children) == [st |-> st, gen |-> gen, children |-> children]

\* the jump a block ends with: [gen, error, jump] with jump <<>> for None and
\* <<opcode, target>> otherwise
last_jump(gen, ctx, block, last) ==
    IF last.op = "Jne"
    THEN Let(node_2_register(gen, last.lhs), LAMBDA condition :
        [st |-> "Ok", gen |-> condition.gen,
         jump |-> <<JMPIFNOT(condition.reg, 0), last.rhs>>])
    ELSE IF last.op = "Jeq"
    THEN Let(node_2_register(gen, last.lhs), LAMBDA condition :
        [st |-> "Ok", gen |-> condition.gen,
         jump |-> <<JMPIF(condition.reg, 0), last.rhs>>])
    ELSE IF last.op = "Jmp"
    THEN [st |-> "Ok", gen |-> gen, jump |-> <<JMP(0), last.rhs>>]
    ELSE Let(instruction_to_bc(gen, ctx, last), LAMBDA r :
        [st |-> r.st, gen |-> r.gen,
         jump |-> IF block.left # DummyBlock THEN <<JMP(0), block.left>> ELSE <<>>])

\* the successors process_block returns: the exit of an if, right, left
block_children(block) ==
    (IF block.exit # DummyBlock THEN <<block.exit>> ELSE <<>>)
    \o (IF block.right # DummyBlock THEN <<block.right>> ELSE <<>>)
    \o (IF block.left # DummyBlock THEN <<block.left>> ELSE <<>>)

\* the end of a block that returns to its caller
no_return_opcode(gen, block) == gen
return_to_caller(gen, block) ==
    IF block.left # DummyBlock THEN gen ELSE push_code(gen, CallBack)

\* process_block from its last instruction on; start is the length of the
\* bytecode when the block was entered
finish_block(gen, ctx, block_id, start) ==
    Let(ctx.blocks[block_id], LAMBDA block :
    Let(last_jump(gen, ctx, block,
                  try_get_instruction(ctx, block.instructions[Len(block.instructions)])),
        LAMBDA j :
        IF j.st = "Err" THEN Processed(unsupported_outcome, j.gen, <<>>)
        ELSE IF j.st = "panic" THEN Processed("panic", j.gen, <<>>)
        ELSE IF block.exit # DummyBlock /\ ctx.blocks[block.exit].kind # "IfJoin"
        THEN Processed("panic", j.gen, <<>>)
        ELSE Let(IF block.left # DummyBlock
                 THEN handle_phi_instructions(j.gen, ctx, block_id, block.left)
                 ELSE j.gen, LAMBDA g1 :
             Let(IF j.jump # <<>>
                 THEN push_code(push_to_fix(g1, j.jump[2]), j.jump[1])
                 ELSE g1, LAMBDA g2 :
                Processed("Ok",
                          [return_to_caller(g2, block)
                              EXCEPT !.obj.blocks = Insert(@, block_id, start)],
                          block_children(block))))))

\* the loop of process_block over the instructions but the last, from the
\* i-th on, followed by the end of the block
RECURSIVE process_block_from(_, _, _, _, _)
process_block_from(gen, ctx, block_id, start, i) ==
    IF i >= Len(ctx.blocks[block_id].instructions)
    THEN finish_block(gen, ctx, block_id, start)
    ELSE Let(instruction_to_bc(gen, ctx,
                 try_get_instruction(ctx, ctx.blocks[block_id].instructions[i])), LAMBDA r :
        IF r.st = "Ok" THEN process_block_from(r.gen, ctx, block_id, start, i + 1)
        ELSE Processed(r.st, r.gen, <<>>))

\* BrilligGen::process_block; a block holds at least one instruction
process_block(gen, ctx, block_id) ==
    process_block_from(gen, ctx, block_id, code_len(gen), 1)

\* `!block.is_join() || block.dominator == Some(current)`
not_join_or_dominated_by_any(block, current) == TRUE
not_join_or_dominated(block, current) == ~is_join(block) \/ block.dominator = current

InQueue(blocks, block_id) == \E j \in 1 .. Len(blocks) : blocks[j] = block_id

\* the closure add_to_queue of process_blocks, over the children from the i-th on
RECURSIVE add_to_queue(_, _, _, _, _)
add_to_queue(blocks, ctx, current, children, i) ==
    IF i > Len(children) THEN blocks
    ELSE IF /\ children[i] # DummyBlock
            /\ ~InQueue(blocks, children[i])
            /\ not_join_or_dominated(ctx.blocks[children[i]], current)
    THEN add_to_queue(Append(blocks, children[i]), ctx, current, children, i + 1)
    ELSE add_to_queue(blocks, ctx, current, children, i + 1)

\* BrilligGen::process_blocks, with the stack of the blocks to visit
RECURSIVE process_blocks(_, _, _)
process_blocks(gen, ctx, blocks) ==
    IF blocks = <<>> THEN Generated("Ok", gen)
    ELSE Let(process_block(gen, ctx, blocks[Len(blocks)]), LAMBDA r :
        IF r.st # "Ok" THEN Generated(r.st, r.gen)
        ELSE process_blocks(r.gen, ctx,
                 add_to_queue(SubSeq(blocks, 1, Len(blocks) - 1), ctx,
                              blocks[Len(blocks)], r.children, 1)))

\* the value BrilligGen::compile returns: Ok(obj) or Err(..)
Compiled(st, gen) == IF st = "Ok" THEN [st |-> "Ok", obj |-> gen.obj] ELSE [st |-> st]

\* BrilligGen::compile
compile(ctx, block) ==
    Let(process_blocks(DefaultGen, ctx, <<block>>), LAMBDA r : Compiled(r.st, r.gen))

-----------------------------------------------------------------------------
(* Input expressions: canonical form over the witnesses 1..NumVars *)

Coefs == {1, FieldModulus - 1}
Consts == {0, 1}
Scalars == {0, 1, FieldModulus - 1}

LinKeys == 1 .. NumVars
MulKeys == {p \in LinKeys \X LinKeys : p[1] <= p[2]}

RECURSIVE BuildLin(_, _, _)
BuildLin(S, f, w) ==
    IF w > NumVars THEN <<>>
    ELSE (IF w \in S THEN << <<f[w], w>> >> ELSE <<>>) \o BuildLin(S, f, w + 1)

RECURSIVE BuildMul(_, _, _, _)
BuildMul(S, f, x, y) ==
    IF x > NumVars THEN <<>>
    ELSE IF y > NumVars THEN BuildMul(S, f, x + 1, x + 1)
    ELSE (IF <<x, y>> \in S THEN << <<f[<<x, y>>], x, y>> >> ELSE <<>>)
         \o BuildMul(S, f, x, y + 1)

NumTerms(e) == Len(e.mul_terms) + Len(e.linear_combinations)

\* the canonical expressions with at most n terms
Exprs(n) ==
    UNION { UNION { { Expr(BuildMul(SM, fm, 1, 1), BuildLin(SL, fl, 1), c) :
                        fm \in [SM -> Coefs], fl \in [SL -> Coefs], c \in Consts }
                    : SM \in {S \in SUBSET MulKeys :
                                 Cardinality(S) + Cardinality(SL) <= n} }
            : SL \in {S \in SUBSET LinKeys : Cardinality(S) <= n} }

StrictlySortedLin(l) == \A i \in 1 .. (Len(l) - 1) : l[i][2] < l[i + 1][2]
StrictlySortedMul(m) ==
    \A i \in 1 .. (Len(m) - 1) : PairLess(m[i][2], m[i][3], m[i + 1][2], m[i + 1][3])
NoZeroCoeff(l) == \A i \in 1 .. Len(l) : l[i][1] # 0

-----------------------------------------------------------------------------
(* The ACIR generator is not part of the specifications of the library:    *)
(* its state is empty there.                                               *)

NoInstruction == [id |-> 0, op |-> "none"]

AcirIdle ==
    /\ arith_cache = <<>>
    /\ memory_map = <<>>
    /\ public_inputs = <<>>
    /\ ins = NoInstruction
    /\ pre = Evaluator(0, <<>>)

\* The Brillig generator and the linker are not part of the specifications
\* of the constraint backend: their state is empty there.
BrilligIdle ==
    /\ ssa = <<>>
    /\ brillig = <<>>
    /\ ip = 0
    /\ queue = <<>>
    /\ linked = <<>>
    /\ byte_code = <<>>
    /\ appended = <<>>

-----------------------------------------------------------------------------
(* Specification of the algebra: the operands are drawn, then one of the    *)
(* operations of constraints.rs is applied to them.                         *)

InitAlgebra ==
    /\ pc = "start"
    /\ fn = "none"
    /\ a \in Exprs(MaxTerms)
    /\ b \in Exprs(MaxTerms - NumTerms(a))
    /\ k \in Scalars
    /\ num_bits = 0 /\ va = 0 /\ vb = 0
    /\ ret = ExprZero
    /\ status = "none"
    /\ opcodes = <<>>
    /\ current_witness_index = NumVars
    /\ stderr = 0
    /\ opcode = "none"
    /\ AcirIdle
    /\ BrilligIdle

CallAdd ==
    /\ pc = "start"
    /\ pc' = "done"
    /\ fn' = "add"
    /\ ret' = add(a, k, b)
    /\ status' = "ok"
    /\ UNCHANGED <<args, acir, bril, opcodes, current_witness_index, stderr>>

CallSubtract ==
    /\ pc = "start"
    /\ pc' = "done"
    /\ fn' = "subtract"
    /\ ret' = subtract(a, k, b)
    /\ status' = "ok"
    /\ UNCHANGED <<args, acir, bril, opcodes, current_witness_index, stderr>>

CallMul ==
    /\ pc = "start"
    /\ pc' = "done"
    /\ fn' = "mul"
    /\ ret' = mul(a, b)
    /\ status' = IF mul_panics(a, b) THEN "panic" ELSE "ok"
    /\ UNCHANGED <<args, acir, bril, opcodes, current_witness_index, stderr>>

NextAlgebra == CallAdd \/ CallSubtract \/ CallMul

SpecAlgebra == InitAlgebra /\ [][NextAlgebra]_vars

-----------------------------------------------------------------------------
(* Properties of the algebra *)

\* C1: add(a,k,b) on canonical a, b returns linear and quadratic term lists
\* that are strictly sorted by key (hence without duplicate key) and without
\* zero coefficient, and the constant a.q_c + k*b.q_c.
C1_AddCanonical ==
    (pc = "done" /\ fn = "add") =>
        /\ StrictlySortedLin(ret.linear_combinations)
        /\ StrictlySortedMul(ret.mul_terms)
        /\ NoZeroCoeff(ret.linear_combinations)
        /\ NoZeroCoeff(ret.mul_terms)
        /\ ret.q_c = (a.q_c + k * b.q_c) % FieldModulus

\* add has merged a key present in both operands whose coefficients cancel,
\* next to a key that survives
C1_Witness ==
    /\ pc = "done" /\ fn = "add" /\ k # 0
    /\ \E i \in 1 .. Len(a.linear_combinations), j \in 1 .. Len(b.linear_combinations) :
          /\ a.linear_combinations[i][2] = b.linear_combinations[j][2]
          /\ FAdd(a.linear_combinations[i][1], FMul(k, b.linear_combinations[j][1])) = 0
    /\ Len(ret.linear_combinations) >= 1
    /\ b.q_c # 0

\* C2: add(a,0,b) = a for canonical a and b.
C2_AddZeroScalar ==
    (pc = "done" /\ fn = "add" /\ k = 0) => ret = a

\* add was called with scalar 0 on a non-trivial a and a b that has terms and
\* a non-zero constant
C2_Witness ==
    /\ pc = "done" /\ fn = "add" /\ k = 0
    /\ NumTerms(a) >= 1 /\ NumTerms(b) >= 1 /\ b.q_c # 0
    /\ ret = a

\* C3 as stated: mul never returns quadratic terms when an input has some.
C3_MulNeverQuadratic ==
    (pc = "done" /\ fn = "mul" /\ status = "ok"
       /\ (a.mul_terms # <<>> \/ b.mul_terms # <<>>))
        => ret.mul_terms = <<>>

\* C3 amended: when an input of mul has quadratic terms, mul returns only if
\* the other input is a pure constant c, and then it returns c times that
\* input: quadratic terms are present exactly when c is not zero.
C3_MulQuadraticOnlyScaled ==
    (pc = "done" /\ fn = "mul" /\ (a.mul_terms # <<>> \/ b.mul_terms # <<>>)) =>
        /\ (status = "ok") = (is_const(a) \/ is_const(b))
        /\ is_const(a) => (ret = add(ExprZero, a.q_c, b)
                            /\ (ret.mul_terms # <<>>) = (a.q_c # 0))
        /\ (is_const(b) /\ ~is_const(a)) =>
               (ret = add(ExprZero, b.q_c, a) /\ (ret.mul_terms # <<>>) = (b.q_c # 0))

\* mul returned quadratic terms for a constant times a quadratic expression
C3_Witness ==
    /\ pc = "done" /\ fn = "mul" /\ status = "ok"
    /\ is_const(a) /\ a.q_c # 0 /\ b.mul_terms # <<>>
    /\ ret.mul_terms = b.mul_terms

-----------------------------------------------------------------------------
(* Specification of the reduction helpers: the operands are drawn, the     *)
(* evaluator holds the witnesses 1..NumVars and no opcode, and one helper  *)
(* is called.                                                              *)

InitReduce ==
    /\ pc = "start"
    /\ fn = "none"
    /\ a \in Exprs(MaxTerms)
    /\ b \in Exprs(MaxTerms - NumTerms(a))
    /\ k = 0
    /\ num_bits = 0 /\ va = 0 /\ vb = 0
    /\ ret = ExprZero
    /\ status = "none"
    /\ opcodes = <<>>
    /\ current_witness_index = NumVars
    /\ stderr = 0
    /\ opcode = "none"
    /\ AcirIdle
    /\ BrilligIdle

\* the evaluator after the call, the returned value, and whether the call
\* completed
Returned(r) ==
    /\ ret' = r.val
    /\ opcodes' = r.ev.ops
    /\ current_witness_index' = r.ev.cwi
    /\ status' = IF r.panics THEN "panic" ELSE "ok"

CallExpressionToWitness ==
    /\ pc = "start"
    /\ LET r == expression_to_witness(Evaluator(current_witness_index, opcodes), a) IN
        /\ ret' = r.val
        /\ opcodes' = r.ev.ops
        /\ current_witness_index' = r.ev.cwi
    /\ pc' = "done"
    /\ fn' = "expression_to_witness"
    /\ status' = "ok"
    /\ UNCHANGED <<args, acir, bril, stderr>>

CallMulWithWitness ==
    /\ pc = "start"
    /\ Returned(mul_with_witness(Evaluator(current_witness_index, opcodes), a, b))
    /\ pc' = "done"
    /\ fn' = "mul_with_witness"
    /\ UNCHANGED <<args, acir, bril, stderr>>

CallBooleanExpr ==
    /\ pc = "start"
    /\ Returned(boolean_expr(Evaluator(current_witness_index, opcodes), a))
    /\ pc' = "done"
    /\ fn' = "boolean_expr"
    /\ UNCHANGED <<args, acir, bril, stderr>>

NextReduce == CallExpressionToWitness \/ CallMulWithWitness \/ CallBooleanExpr

SpecReduce == InitReduce /\ [][NextReduce]_vars

-----------------------------------------------------------------------------
(* Properties of the reduction helpers *)

\* values given to the input witnesses when a gate is evaluated
SampleValues == {0, 1, 3}
SampleAssignments == [1 .. NumVars -> SampleValues]

\* the gate g, whose newest witness is w, holds exactly when w has the value of e
TiesWitness(g, w, e) ==
    /\ g.kind = "Arithmetic"
    /\ MaxWitExpr(g.expr) = w
    /\ \A asg \in SampleAssignments :
          LET before == [i \in 1 .. (w - 1) |-> IF i <= NumVars THEN asg[i] ELSE 0] IN
          \A d \in {0, 1} :
              (Eval(g.expr, Append(before, FAdd(Eval(e, before), d))) = 0) = (d = 0)

IsUnitVariable(e) ==
    /\ e.mul_terms = <<>>
    /\ Len(e.linear_combinations) = 1
    /\ e.linear_combinations[1][1] = 1
    /\ e.q_c = 0

\* C4: expression_to_witness returns the variable of a unit-coefficient,
\* zero-constant, single-variable expression without allocating a variable
\* or emitting a gate; for every other expression it emits exactly one
\* equality gate and returns a variable that did not exist before the call.
C4_ExpressionToWitness ==
    (pc = "done" /\ fn = "expression_to_witness") =>
        IF IsUnitVariable(a)
        THEN /\ ret = a.linear_combinations[1][2]
             /\ current_witness_index = NumVars
             /\ opcodes = <<>>
        ELSE /\ Len(opcodes) = 1
             /\ ret > NumVars
             /\ current_witness_index = ret
             /\ TiesWitness(opcodes[1], ret, a)

\* an affine expression x + 1 (unit coefficient, non-zero constant) was
\* reduced through a gate
C4_Witness ==
    /\ pc = "done" /\ fn = "expression_to_witness"
    /\ a.mul_terms = <<>> /\ Len(a.linear_combinations) = 1
    /\ a.linear_combinations[1][1] = 1 /\ a.q_c = 1
    /\ Len(opcodes) = 1 /\ ret = NumVars + 1

\* number of operands mul_with_witness has to materialize
NumMaterialized ==
    (IF a.mul_terms # <<>> /\ ~is_const(b) THEN 1 ELSE 0)
    + (IF b.mul_terms # <<>> /\ ~is_const(a) /\ a # b THEN 1 ELSE 0)

\* C5: mul_with_witness never reaches the logic error of mul; an operand with
\* quadratic terms whose other operand is not constant is tied to a fresh
\* variable by one equality gate (one gate serves both operands when they
\* are equal), and no gate is emitted in any other case.
C5_MulWithWitness ==
    (pc = "done" /\ fn = "mul_with_witness") =>
        /\ status = "ok"
        /\ Len(opcodes) = NumMaterialized
        /\ current_witness_index = NumVars + NumMaterialized
        /\ (a.mul_terms # <<>> /\ ~is_const(b)) =>
               TiesWitness(opcodes[1], NumVars + 1, a)
        /\ (b.mul_terms # <<>> /\ ~is_const(a)) =>
               TiesWitness(opcodes[Len(opcodes)], NumVars + Len(opcodes), b)
        /\ \A asg \in SampleAssignments :
               LET w1 == Append(asg, IF a.mul_terms # <<>> THEN Eval(a, asg)
                                                        ELSE Eval(b, asg))
                   full == Append(w1, Eval(b, asg))
               IN Eval(ret, full) = FMul(Eval(a, asg), Eval(b, asg))

\* two distinct quadratic operands were both materialized
C5_Witness ==
    /\ pc = "done" /\ fn = "mul_with_witness" /\ status = "ok"
    /\ a.mul_terms # <<>> /\ b.mul_terms # <<>> /\ a # b
    /\ Len(opcodes) = 2
    /\ ret.mul_terms = << <<1, NumVars + 1, NumVars + 2>> >>

-----------------------------------------------------------------------------
(* Specification of the range constraint: witness 1 has the value va and   *)
(* is constrained to num_bits bits.                                        *)

InitRange ==
    /\ pc = "start"
    /\ fn = "none"
    /\ a = expression_from_witness(1)
    /\ b = ExprZero
    /\ k = 0
    /\ num_bits \in 1 .. max_num_bits
    /\ va \in Field
    /\ vb = 0
    /\ ret = ExprZero
    /\ status = "none"
    /\ opcodes = <<>>
    /\ current_witness_index = NumVars
    /\ stderr = 0
    /\ opcode = "none"
    /\ AcirIdle
    /\ BrilligIdle

CallRangeConstraint ==
    /\ pc = "start"
    /\ LET r == range_constraint(Evaluator(current_witness_index, opcodes), 1, num_bits) IN
        /\ opcodes' = r.ev.ops
        /\ current_witness_index' = r.ev.cwi
        /\ status' = IF r.err THEN "err" ELSE "ok"
        /\ stderr' = stderr + r.reports
    /\ pc' = "done"
    /\ fn' = "range_constraint"
    /\ UNCHANGED <<args, acir, bril, ret>>

CallTryRangeConstraint ==
    /\ pc = "start"
    /\ LET r == try_range_constraint(Evaluator(current_witness_index, opcodes), 1, num_bits) IN
        /\ opcodes' = r.ev.ops
        /\ current_witness_index' = r.ev.cwi
        /\ status' = "ok"
        /\ stderr' = stderr + r.reports
    /\ pc' = "done"
    /\ fn' = "try_range_constraint"
    /\ UNCHANGED <<args, acir, bril, ret>>

NextRange == CallRangeConstraint \/ CallTryRangeConstraint

SpecRange == InitRange /\ [][NextRange]_vars

\* the values of the witnesses that exist before the call: witness 1 has
\* the value va, the others vb
InputValues == [i \in 1 .. NumVars |-> IF i = 1 THEN va ELSE vb]

\* C6: for 1 <= num_bits < max_num_bits the opcodes of range_constraint are
\* satisfiable, for some values of the auxiliary witnesses, exactly when the
\* value of the constrained witness is below 2^num_bits.
C6_RangeExact ==
    (pc = "done" /\ fn = "range_constraint" /\ num_bits < max_num_bits) =>
        /\ status = "ok"
        /\ Satisfiable(opcodes, InputValues, current_witness_index) = (va < 2 ^ num_bits)

\* an odd width above 1: the value 2^num_bits is rejected through the
\* decomposition gate
C6_Witness ==
    /\ pc = "done" /\ fn = "range_constraint"
    /\ num_bits = 5 /\ va = 32
    /\ Len(opcodes) = 4
    /\ ~Satisfiable(opcodes, InputValues, current_witness_index)

\* C7: with num_bits = max_num_bits range_constraint returns Err and adds no
\* opcode and no witness; try_range_constraint prints the error, returns
\* normally and leaves the constraint system as it was.
C7_FullWidthIsNoOp ==
    (pc = "done" /\ num_bits = max_num_bits
       /\ fn \in {"range_constraint", "try_range_constraint"}) =>
        /\ opcodes = <<>>
        /\ current_witness_index = NumVars
        /\ (fn = "range_constraint") => (status = "err" /\ stderr = 0)
        /\ (fn = "try_range_constraint") => (status = "ok" /\ stderr = 1)

\* try_range_constraint was called with the full field width
C7_Witness ==
    /\ pc = "done" /\ fn = "try_range_constraint"
    /\ num_bits = max_num_bits
    /\ status = "ok" /\ stderr = 1 /\ opcodes = <<>>

-----------------------------------------------------------------------------
(* Specification of the bound constraint: a is witness 1 with value va, b   *)
(* is witness 2 with value vb or the constant vb, the offset is k.          *)

InitBound ==
    /\ pc = "start"
    /\ fn = "none"
    /\ num_bits = CmpBits
    /\ va \in 0 .. (2 ^ CmpBits - 1)
    /\ vb \in 0 .. (2 ^ CmpBits - 1)
    /\ a = expression_from_witness(1)
    /\ b \in {expression_from_witness(2), from_field(vb)}
    /\ k \in {0, 1}
    /\ ret = ExprZero
    /\ status = "none"
    /\ opcodes = <<>>
    /\ current_witness_index = NumVars
    /\ stderr = 0
    /\ opcode = "none"
    /\ AcirIdle
    /\ BrilligIdle

\* the evaluator after the call, whether the call completed, and its messages
Constrained(r) ==
    /\ opcodes' = r.ev.ops
    /\ current_witness_index' = r.ev.cwi
    /\ status' = IF r.panics THEN "panic" ELSE "ok"
    /\ stderr' = stderr + r.reports

CallBoundConstraintWithOffset ==
    /\ pc = "start"
    /\ Constrained(bound_constraint_with_offset(Evaluator(current_witness_index, opcodes),
                                                a, b, from_field(k), num_bits))
    /\ pc' = "done"
    /\ fn' = "bound_constraint_with_offset"
    /\ UNCHANGED <<args, acir, bril, ret>>

NextBound == CallBoundConstraintWithOffset

SpecBound == InitBound /\ [][NextBound]_vars

\* C8: bound_constraint_with_offset completes and its opcodes are
\* satisfiable exactly when a < b (offset 1) or a <= b (offset 0), for b a
\* witness or a constant.
C8_BoundExact ==
    (pc = "done" /\ fn = "bound_constraint_with_offset") =>
        /\ status = "ok"
        /\ Satisfiable(opcodes, InputValues, current_witness_index) = (va + k <= vb)

\* where the call completes, the opcodes are exact
C8_ExactWhenCompleted ==
    (pc = "done" /\ fn = "bound_constraint_with_offset" /\ status = "ok") =>
        Satisfiable(opcodes, InputValues, current_witness_index) = (va + k <= vb)

\* the call stops on its assertion only for the constant bound 0 with offset 1
C8_PanicsOnlyOnZeroBound ==
    (pc = "done" /\ fn = "bound_constraint_with_offset") =>
        (status = "panic") = (is_const(b) /\ b.q_c = 0 /\ k = 1)

\* the effective bound f of the call, and its bit length
BoundF == constant_bound(b, from_field(k))
BoundBits == bit_size_u128(BoundF)

\* the call took the constant branch with an effective bound of at least 3
\* and passed its assertions
ConstantBoundCase ==
    /\ pc = "done" /\ fn = "bound_constraint_with_offset" /\ status = "ok"
    /\ is_const(b) /\ fits_in_u128(b.q_c)
    /\ BoundF >= 3 /\ BoundBits < U128Bits

\* the opcodes that materialize e as a witness and range-constrain that
\* witness to BoundBits bits, on an empty constraint system
RangeOf(e) ==
    Let(expression_to_witness(Evaluator(NumVars, <<>>), e), LAMBDA w :
        try_range_constraint(w.ev, w.val, BoundBits).ev.ops)

\* C21 as stated: in the constant branch with f >= 3 the value materialized
\* and range-constrained to bitlen(f) bits is aof + r + 1, with
\* r = 2^bitlen(f) - f - 1.
C21_RangeOfAofPlusRPlusOne ==
    ConstantBoundCase =>
        opcodes = RangeOf(add(a, (2 ^ BoundBits) - BoundF, ExprOne))

\* C21 amended: the value materialized and range-constrained to bitlen(f)
\* bits is aof + r, so the opcodes are satisfiable exactly when
\* a + r < 2^bitlen(f), that is a <= f.
C21_RangeOfAofPlusR ==
    ConstantBoundCase =>
        /\ opcodes = RangeOf(add(a, (2 ^ BoundBits) - BoundF - 1, ExprOne))
        /\ Satisfiable(opcodes, InputValues, current_witness_index)
             = (va + (2 ^ BoundBits) - BoundF - 1 < 2 ^ BoundBits)

\* a = f = 5 with r = 2: a + r = 7 is the largest 3-bit value and a new
\* witness was made for it
C21_Witness ==
    /\ ConstantBoundCase
    /\ BoundF = 5 /\ va = 5 /\ k = 0
    /\ current_witness_index > NumVars
    /\ Satisfiable(opcodes, InputValues, current_witness_index)

-----------------------------------------------------------------------------
(* Specification of the bitwise operations: the operands are drawn and     *)
(* evaluate_bitwise is called on them.                                     *)

BitwiseOps == {"And", "Xor", "Or"}

InitBitwise ==
    /\ pc = "start"
    /\ fn = "none"
    /\ a \in Exprs(MaxTerms)
    /\ b \in Exprs(MaxTerms - NumTerms(a))
    /\ k = 0
    /\ num_bits \in {1, 2}
    /\ va = 0 /\ vb = 0
    /\ opcode \in BitwiseOps
    /\ ret = ExprZero
    /\ status = "none"
    /\ opcodes = <<>>
    /\ current_witness_index = NumVars
    /\ stderr = 0
    /\ AcirIdle
    /\ BrilligIdle

CallEvaluateBitwise ==
    /\ pc = "start"
    /\ Returned(evaluate_bitwise(Evaluator(current_witness_index, opcodes),
                                 from_expression(a), from_expression(b), num_bits, opcode))
    /\ pc' = "done"
    /\ fn' = "evaluate_bitwise"
    /\ UNCHANGED <<args, acir, bril, stderr>>

\* the arm of evaluate_binary for And, Or and Xor; pc tells whether
\* simplify_bitwise returned a result or the general path was taken
CallBitwise ==
    /\ pc = "start"
    /\ Let(bitwise_result(Evaluator(current_witness_index, opcodes),
                          from_expression(a), from_expression(b), num_bits, opcode),
           LAMBDA r : Returned(r) /\ pc' = IF r.simplified THEN "simplified" ELSE "general")
    /\ fn' = "evaluate_binary"
    /\ UNCHANGED <<args, acir, bril, stderr>>

NextBitwise == CallEvaluateBitwise \/ CallBitwise

SpecBitwise == InitBitwise /\ [][NextBitwise]_vars

\* the boolean value of x OP y for bits x, y
BoolTable(op, x, y) ==
    IF op = "And" THEN (IF x = 1 /\ y = 1 THEN 1 ELSE 0)
    ELSE IF op = "Xor" THEN (IF x # y THEN 1 ELSE 0)
    ELSE (IF x = 1 \/ y = 1 THEN 1 ELSE 0)

\* the field identity of x OP y: x*y, x + y - 2xy, x + y - xy
FieldIdentity(op, x, y) ==
    IF op = "And" THEN FMul(x, y)
    ELSE IF op = "Xor" THEN FAdd(FAdd(x, y), FNeg(FMul(2, FMul(x, y))))
    ELSE FAdd(FAdd(x, y), FNeg(FMul(x, y)))

\* C9: for bit width 1 and non-constant affine operands evaluate_bitwise
\* emits no opcode, allocates no witness and returns a*b (AND), a+b-2ab
\* (XOR), a+b-ab (OR); where a and b have values in {0,1} the result is the
\* boolean AND, XOR, OR of the two.
C9_BitwiseOneBit ==
    (pc = "done" /\ fn = "evaluate_bitwise" /\ num_bits = 1
       /\ ~is_const(a) /\ ~is_const(b) /\ is_linear(a) /\ is_linear(b)) =>
        /\ status = "ok"
        /\ opcodes = <<>>
        /\ current_witness_index = NumVars
        /\ \A asg \in SampleAssignments :
              LET x == Eval(a, asg)
                  y == Eval(b, asg)
              IN /\ Eval(ret, asg) = FieldIdentity(opcode, x, y)
                 /\ (x \in {0, 1} /\ y \in {0, 1}) => Eval(ret, asg) = BoolTable(opcode, x, y)

\* the XOR of two distinct witnesses at width 1: x1 + x2 - 2*x1*x2
C9_Witness ==
    /\ pc = "done" /\ fn = "evaluate_bitwise" /\ num_bits = 1 /\ opcode = "Xor"
    /\ a = expression_from_witness(1) /\ b = expression_from_witness(2)
    /\ ret = Expr(<< <<FNeg(2), 1, 2>> >>, << <<1, 1>>, <<1, 2>> >>, 0)
    /\ opcodes = <<>>

-----------------------------------------------------------------------------
(* Specification of the ACIR generator: evaluate_instruction is called on  *)
(* up to MaxInstructions instructions in program order; the run ends when  *)
(* a call returns Err or panics.                                           *)

InitAcir ==
    /\ pc = "start"
    /\ fn = "none"
    /\ a = ExprZero /\ b = ExprZero /\ k = 0
    /\ num_bits = 0 /\ va = 0 /\ vb = 0
    /\ opcode = "none"
    /\ ret = ExprZero
    /\ status = "none"
    /\ opcodes = <<>>
    /\ current_witness_index = NumVars
    /\ stderr = 0
    /\ arith_cache = <<>>
    /\ memory_map = <<>>
    /\ public_inputs \in {<<>>, <<1>>}
    /\ ins = NoInstruction
    /\ pre = Evaluator(NumVars, <<>>)
    /\ BrilligIdle

\* the id of the next instruction
NextInsId == IF ins = NoInstruction THEN FirstInsId ELSE ins.id + 1

\* the scalar nodes an instruction may refer to: the constant, the two
\* variables and the results of the earlier instructions
Operands == {1, 2, 3} \cup (FirstInsId .. (NextInsId - 1))

CanEvaluate ==
    /\ pc \in {"start", "done"}
    /\ status \in {"none", "Ok"}
    /\ NextInsId < FirstInsId + MaxInstructions

\* the generator after the call and the call's outcome
Evaluated(r) ==
    /\ arith_cache' = r.st.cache
    /\ memory_map' = r.st.mem
    /\ opcodes' = r.st.ev.ops
    /\ current_witness_index' = r.st.ev.cwi
    /\ public_inputs' = r.st.pub
    /\ status' = r.outcome

\* one call of Acir::evaluate_instruction
Evaluate(i) ==
    /\ CanEvaluate
    /\ Evaluated(evaluate_instruction(
                     AcirState(arith_cache, memory_map,
                               Evaluator(current_witness_index, opcodes), public_inputs), i))
    /\ ins' = i
    /\ pre' = Evaluator(current_witness_index, opcodes)
    /\ pc' = "done"
    /\ fn' = "evaluate_instruction"
    /\ UNCHANGED <<args, bril, ret, stderr>>

EvaluateNop == Evaluate(Instruction(NextInsId, "Nop", "none", 0, 0, 0, "NativeField", FieldBits))

EvaluateBinary ==
    \E operator \in {"Add", "Sub", "Mul", "Lt", "Lte"}, l \in Operands, r \in Operands,
       t \in {"NativeField", "Unsigned"} :
        Evaluate(Instruction(NextInsId, "Binary", operator, l, r, 0, t,
                             IF t = "NativeField" THEN FieldBits ELSE NodeBits))

EvaluateConstrain ==
    \E v \in Operands :
        Evaluate(Instruction(NextInsId, "Constrain", "none", v, 0, 0, "NativeField", FieldBits))

EvaluateNot ==
    \E v \in Operands :
        Evaluate(Instruction(NextInsId, "Not", "none", v, 0, 0, "Unsigned", NodeBits))

EvaluateCast ==
    \E v \in Operands \cup {4} :
        Evaluate(Instruction(NextInsId, "Cast", "none", v, 0, 0, "NativeField", FieldBits))

EvaluateCond ==
    \E c \in Operands, l \in Operands, r \in Operands :
        Evaluate(Instruction(NextInsId, "Cond", "none", l, r, c, "NativeField", FieldBits))

EvaluateLoad ==
    \E index \in Operands :
        Evaluate(Instruction(NextInsId, "Load", "none", index, 0, 0, "NativeField", FieldBits))

EvaluateStore ==
    \E index \in Operands, value \in Operands :
        Evaluate(Instruction(NextInsId, "Store", "none", index, value, 0,
                             "NativeField", FieldBits))

\* the nodes a Return may name: the scalars and the array
Returnable == Operands \cup {4}

EvaluateReturn ==
    \E node_ids \in {<<x>> : x \in Returnable}
                    \cup {<<x, y>> : x \in Returnable, y \in Returnable} :
        Evaluate(Instruction(NextInsId, "Return", "none", node_ids, 0, 0,
                             "NativeField", FieldBits))

ControlFlowOps == {"Jne", "Jeq", "Jmp", "Phi", "Call", "Result"}

EvaluateControlFlow ==
    \E op \in ControlFlowOps :
        Evaluate(Instruction(NextInsId, op, "none", 0, 0, 0, "NativeField", FieldBits))

NextAcir ==
    \/ EvaluateNop
    \/ EvaluateBinary
    \/ EvaluateConstrain
    \/ EvaluateNot
    \/ EvaluateCast
    \/ EvaluateCond
    \/ EvaluateLoad
    \/ EvaluateStore
    \/ EvaluateReturn
    \/ EvaluateControlFlow

SpecAcir == InitAcir /\ [][NextAcir]_vars

\* the instruction just evaluated is a field comparison on native-field
\* operands, or a Load or Store whose index is not a compile-time constant
FieldComparison ==
    /\ ins.op = "Binary" /\ ins.operator \in {"Lt", "Lte"}
    /\ try_get_node(ins.lhs).type = "NativeField"
    /\ try_get_node(ins.rhs).type = "NativeField"

DynamicIndex ==
    /\ ins.op \in {"Load", "Store"}
    /\ ins.lhs \in DOMAIN arith_cache
    /\ ~is_const_var(arith_cache[ins.lhs])

\* C10: on a field comparison or a dynamic array index evaluate_instruction
\* returns an error value, does not panic, and emits no opcode.
C10_UnsupportedIsError ==
    (pc = "done" /\ fn = "evaluate_instruction" /\ (FieldComparison \/ DynamicIndex)) =>
        /\ status = "Err"
        /\ opcodes = pre.ops

\* what the code does there: it panics, having emitted no opcode
C10_UnsupportedPanics ==
    (pc = "done" /\ fn = "evaluate_instruction" /\ (FieldComparison \/ DynamicIndex)) =>
        /\ status = "panic"
        /\ opcodes = pre.ops

\* C11: a control-flow operation (Jne, Jeq, Jmp, Phi, Call, Result) makes
\* evaluate_instruction stop with a fatal failure: the outcome is neither Ok
\* nor an error value, and the value cache and the opcodes are left as they
\* were.
C11_ControlFlowIsFatal ==
    [][(ins' # ins /\ ins'.op \in ControlFlowOps) =>
           /\ status' = "panic"
           /\ arith_cache' = arith_cache
           /\ opcodes' = opcodes]_vars

\* a control-flow operation was evaluated
C11_Witness ==
    /\ pc = "done" /\ fn = "evaluate_instruction"
    /\ ins.op \in ControlFlowOps
    /\ status = "panic"
    /\ ins.id > FirstInsId

\* the generator state after a step
AcirAfter ==
    AcirState(arith_cache', memory_map',
              Evaluator(current_witness_index', opcodes'), public_inputs')

\* looking up a cached node id returns the cached representative and leaves
\* the cache, the witness allocator and the opcodes alone
LookupIsMemoized(st) ==
    \A id \in DOMAIN st.cache :
        /\ st.cache[id].id = id
        /\ node_id_to_internal_var(st, id) = [st |-> st, var |-> st.cache[id], none |-> FALSE]

BackingWitness(id) ==
    IF id \in DOMAIN arith_cache THEN arith_cache[id].cached_witness
    ELSE try_get_node(id).witness

\* the backing witnesses of the values a Return names, arrays element by
\* element, in order
RECURSIVE ReturnedWitnesses(_, _)
ReturnedWitnesses(node_ids, n) ==
    IF n > Len(node_ids) THEN <<>>
    ELSE (IF try_get_node(node_ids[n]).type = "Pointer"
          THEN [j \in 1 .. ArrayLen |->
                   IF (j - 1) \in DOMAIN memory_map
                   THEN memory_map[j - 1].cached_witness ELSE 0]
          ELSE <<BackingWitness(node_ids[n])>>)
         \o ReturnedWitnesses(node_ids, n + 1)

\* w is an ABI witness that is not declared public
PrivateInput(w) ==
    /\ w \in 1 .. NumVars
    /\ \A j \in 1 .. Len(public_inputs) : public_inputs[j] # w

\* C14: Return never appends a private ABI input to the public outputs: it
\* returns an error when a returned value is backed by one, and otherwise
\* appends the witness of every returned scalar and array element once, in
\* order.
C14_ReturnRejectsPrivate ==
    [][(ins' # ins /\ ins'.op = "Return") =>
          LET ws == ReturnedWitnesses(ins'.lhs, 1)
              old == Len(public_inputs)
          IN /\ SubSeq(public_inputs', 1, old) = public_inputs
             /\ \A j \in (old + 1) .. Len(public_inputs') : ~PrivateInput(public_inputs'[j])
             /\ IF \E j \in 1 .. Len(ws) : PrivateInput(ws[j])
                THEN status' = "Err"
                ELSE /\ status' = "Ok"
                     /\ Len(public_inputs') = old + Len(ws)
                     /\ \A j \in 1 .. Len(ws) :
                           IF ws[j] # 0 THEN public_inputs'[old + j] = ws[j]
                           ELSE public_inputs'[old + j] > NumVars]_vars

\* a Return of the array and of the public input completed: three outputs
\* were appended
C14_Witness ==
    /\ pc = "done" /\ fn = "evaluate_instruction" /\ status = "Ok"
    /\ ins.op = "Return" /\ ins.lhs = <<4, 2>>
    /\ Len(public_inputs) = 4
    /\ public_inputs[4] = 1

\* a Return of the private input was rejected
C14_Rejected ==
    /\ pc = "done" /\ fn = "evaluate_instruction" /\ status = "Err"
    /\ ins.op = "Return" /\ ins.lhs = <<3, 2>>
    /\ public_inputs = <<current_witness_index>>

\* mul was applied to two affine expressions that are not constants
MulOfAffine ==
    /\ pc = "done" /\ fn = "mul"
    /\ is_linear(a) /\ is_linear(b) /\ ~is_const(a) /\ ~is_const(b)

\* every quadratic term names its variables in the order var_a <= var_b
OrderedPairs(m) == \A i \in 1 .. Len(m) : m[i][2] <= m[i][3]

\* C20: mul of two canonical, non-constant affine expressions returns a
\* canonical expression: quadratic terms with var_a <= var_b, strictly
\* sorted by pair, linear terms strictly sorted by variable, and no zero
\* coefficient.
C20_MulCanonical ==
    MulOfAffine =>
        /\ OrderedPairs(ret.mul_terms)
        /\ StrictlySortedMul(ret.mul_terms)
        /\ StrictlySortedLin(ret.linear_combinations)
        /\ NoZeroCoeff(ret.mul_terms)
        /\ NoZeroCoeff(ret.linear_combinations)

\* what mul does guarantee: the order of both lists and the quadratic
\* coefficients
C20_MulSortedOnly ==
    MulOfAffine =>
        /\ OrderedPairs(ret.mul_terms)
        /\ StrictlySortedMul(ret.mul_terms)
        /\ StrictlySortedLin(ret.linear_combinations)
        /\ NoZeroCoeff(ret.mul_terms)

\* a zero linear coefficient comes from a term left over after the merge
\* loop whose factor, the other operand's constant, is zero
C20_ZeroOnlyFromTail ==
    (MulOfAffine /\ ~NoZeroCoeff(ret.linear_combinations)) => (a.q_c = 0 \/ b.q_c = 0)

-----------------------------------------------------------------------------
(* Specification of the Brillig generator: BrilligGen::compile on a        *)
(* function of one block, one instruction of the block per step.  The      *)
(* block is drawn from the instructions below; function Callee is the      *)
(* function it calls.                                                      *)

MaxBlockLen == 4
MaxArity == 2

Callee == 2

\* the state of the constraint backend, which the Brillig backend leaves alone
ConstraintIdle ==
    /\ a = ExprZero /\ b = ExprZero /\ k = 0
    /\ num_bits = 0 /\ va = 0 /\ vb = 0
    /\ opcode = "none"
    /\ opcodes = <<>>
    /\ current_witness_index = 0
    /\ stderr = 0
    /\ AcirIdle

Shapes ==
    {"Nop", "Add", "Call", "Result", "Intrinsic", "CastOk", "UnsignedToSigned",
     "FieldToSigned", "SignedToUnsigned", "SignedToField"}

\* the position of the last Call before position i, 0 if there is none
RECURSIVE LastCall(_, _)
LastCall(shapes, i) ==
    IF i <= 1 THEN 0
    ELSE IF shapes[i - 1] = "Call" THEN i - 1
    ELSE LastCall(shapes, i - 1)

\* the number of Result instructions at the positions from .. to
ResultsIn(shapes, from, to) ==
    Cardinality({j \in from .. to : shapes[j] = "Result"})

\* a Result follows its Call, which has no more Results than values to return,
\* and a cast from a signed value casts the signed sum before it
WellFormed(shapes, values) ==
    \A i \in 1 .. Len(shapes) :
        /\ shapes[i] = "Result" =>
            /\ LastCall(shapes, i) # 0
            /\ ResultsIn(shapes, LastCall(shapes, i), i) <= values
        /\ shapes[i] \in {"SignedToUnsigned", "SignedToField"} =>
            i > 1 /\ shapes[i - 1] = "Add"

InsAt(i) == FirstInsId + i - 1

ShapeInstruction(shapes, i, returned_arrays) ==
    IF shapes[i] = "Add"
    THEN Instruction(InsAt(i), "Binary", "Add", 3, 1, 0, "Signed", NodeBits)
    ELSE IF shapes[i] = "Call"
    THEN Instruction(InsAt(i), "Call", "none", Callee, <<>>, returned_arrays, "NotAnObject", 0)
    ELSE IF shapes[i] = "Result"
    THEN Instruction(InsAt(i), "Result", "none", InsAt(LastCall(shapes, i)), 0, 0,
                     "NativeField", FieldBits)
    ELSE IF shapes[i] = "Intrinsic"
    THEN Instruction(InsAt(i), "Intrinsic", "none", 2, 0, 0, "NativeField", FieldBits)
    ELSE IF shapes[i] = "CastOk"
    THEN Instruction(InsAt(i), "Cast", "none", 2, 0, 0, "Unsigned", NodeBits)
    ELSE IF shapes[i] = "UnsignedToSigned"
    THEN Instruction(InsAt(i), "Cast", "none", 3, 0, 0, "Signed", NodeBits)
    ELSE IF shapes[i] = "FieldToSigned"
    THEN Instruction(InsAt(i), "Cast", "none", 2, 0, 0, "Signed", NodeBits)
    ELSE IF shapes[i] = "SignedToUnsigned"
    THEN Instruction(InsAt(i), "Cast", "none", InsAt(i - 1), 0, 0, "Unsigned", NodeBits)
    ELSE IF shapes[i] = "SignedToField"
    THEN Instruction(InsAt(i), "Cast", "none", InsAt(i - 1), 0, 0, "NativeField", FieldBits)
    ELSE Instruction(InsAt(i), "Nop", "none", 0, 0, 0, "NotAnObject", 0)

SsaFunction(kind, arguments, result_types, entry_block, obj) ==
    [kind |-> kind, arguments |-> arguments, result_types |-> result_types,
     entry_block |-> entry_block, obj |-> obj]

BasicBlock(instructions, left, right, exit, kind, dominator) ==
    [instructions |-> instructions, left |-> left, right |-> right, exit |-> exit,
     kind |-> kind, dominator |-> dominator]

SsaContext(funcs, blocks, instructions) ==
    [funcs |-> funcs, blocks |-> blocks, instructions |-> instructions]

\* the results of a function with the given number of results, the first
\* arrays of them arrays
ResultTypes(arity, arrays) ==
    [j \in 1 .. arity |-> IF j <= arrays THEN "Pointer" ELSE "NativeField"]

\* the arrays a call returns: array 1 as the results 0 .. arrays - 1
ReturnedArrays(arrays) == [j \in 1 .. arrays |-> <<1, j - 1>>]

CompileContext(shapes, arity, arrays) ==
    SsaContext(
        [f \in {1, Callee} |->
            SsaFunction("Unsafe", <<>>, IF f = Callee THEN ResultTypes(arity, arrays) ELSE <<>>,
                        f, DefaultArtefact)],
        (1 :> BasicBlock([i \in 1 .. Len(shapes) |-> InsAt(i)], DummyBlock, DummyBlock,
                         DummyBlock, "Normal", DummyBlock)),
        [id \in InsAt(1) .. InsAt(Len(shapes)) |->
            ShapeInstruction(shapes, id - FirstInsId + 1, ReturnedArrays(arrays))])

BlockShapes == UNION {[1 .. n -> Shapes] : n \in 1 .. MaxBlockLen}

\* the blocks, the number of results of Callee and of arrays among them
CompileInputs ==
    {t \in BlockShapes \X (0 .. MaxArity) \X (0 .. 1) :
        t[3] <= t[2] /\ WellFormed(t[1], t[2] - t[3])}

LinkIdle ==
    /\ queue = <<>>
    /\ linked = DefaultArtefact
    /\ byte_code = <<>>
    /\ appended = <<>>

InitCompile ==
    /\ pc = "compile"
    /\ fn = "compile"
    /\ status = "none"
    /\ ret = "none"
    /\ \E t \in CompileInputs : ssa = CompileContext(t[1], t[2], t[3])
    /\ brillig = DefaultGen
    /\ ip = 0
    /\ LinkIdle
    /\ ConstraintIdle

\* the instructions of the block being compiled
BlockInstructions == ssa.blocks[1].instructions

\* the instruction the next step processes
NextInstruction == try_get_instruction(ssa, BlockInstructions[ip + 1])

\* the generator after a step that goes on with the block
Continues(r) ==
    /\ brillig' = r.gen
    /\ pc' = IF r.st = "Ok" THEN "compile" ELSE "done"
    /\ status' = IF r.st = "Ok" THEN "none" ELSE r.st
    /\ ret' = IF r.st = "Ok" THEN ret ELSE Compiled(r.st, r.gen)

\* one iteration of the loop of process_block; an error leaves compile
CompileInstruction ==
    /\ pc = "compile"
    /\ ip + 1 < Len(BlockInstructions)
    /\ Continues(instruction_to_bc(brillig, ssa, NextInstruction))
    /\ ip' = ip + 1
    /\ UNCHANGED <<fn, args, acir, ssa, queue, linked, byte_code, appended,
                   opcodes, current_witness_index, stderr>>

\* the generator after the last step: the block has no successor, so
\* process_blocks ends and compile returns
Finishes(r) ==
    /\ brillig' = r.gen
    /\ status' = r.st
    /\ ret' = Compiled(r.st, r.gen)

\* process_block from the last instruction of the block on
FinishBlock ==
    /\ pc = "compile"
    /\ ip + 1 = Len(BlockInstructions)
    /\ Finishes(finish_block(brillig, ssa, 1, 0))
    /\ ip' = ip + 1
    /\ pc' = "done"
    /\ UNCHANGED <<fn, args, acir, ssa, queue, linked, byte_code, appended,
                   opcodes, current_witness_index, stderr>>

NextCompile == CompileInstruction \/ FinishBlock

SpecCompile == InitCompile /\ [][NextCompile]_vars

\* the steps agree with BrilligGen::compile on the whole block
CompileAgrees == pc = "done" => ret = compile(ssa, 1)

\* the operation of the i-th instruction of the block
OpAt(i) == try_get_instruction(ssa, BlockInstructions[i]).op

\* the Call the i-th instruction, a Call or a Result, belongs to
CallOf(i) ==
    IF OpAt(i) = "Call" THEN try_get_instruction(ssa, BlockInstructions[i])
    ELSE try_get_instruction(ssa, try_get_instruction(ssa, BlockInstructions[i]).lhs)

\* the number of the Results of that Call among the first i instructions
RecordedResults(i) ==
    Cardinality({j \in 1 .. i :
        OpAt(j) = "Result"
        /\ try_get_instruction(ssa, BlockInstructions[j]).lhs = CallOf(i).id})

\* the Results recorded and the returned arrays make up the declared results
ArityMet(i) ==
    RecordedResults(i) + Len(CallOf(i).cond)
        = Len(ssa_func(ssa, CallOf(i).lhs).result_types)

\* the positions among the first n at which a call is due
CallsDue(n) == {i \in 1 .. n : OpAt(i) \in {"Call", "Result"} /\ ArityMet(i)}

NumPushStack(code) == Cardinality({j \in 1 .. Len(code) : code[j].op = "PushStack"})

\* the opcodes a step emits for its instruction, without the CallBack that
\* ends the block
EmittedCode ==
    SubSeq(brillig'.obj.byte_code, Len(brillig.obj.byte_code) + 1,
           Len(brillig'.obj.byte_code) - (IF pc' = "done" /\ status' = "Ok" THEN 1 ELSE 0))

\* a call: the return address, the jump to the callee and nothing else that
\* pushes a return address
IsCallSequence(code) ==
    /\ Len(code) >= 2
    /\ code[1] = PushStack(Constant(0))
    /\ code[2] = JMP(0)
    /\ NumPushStack(code) = 1

\* C15: a Call or Result at which the recorded Results and the returned
\* arrays make up the declared results of the callee emits the call and
\* empties noir_call; a Call or Result before that point emits nothing and is
\* recorded in noir_call; so the bytecode holds one call for each position at
\* which a call was due, and no other instruction touches noir_call
C15_CallMaterializedOnce ==
    [][(ip' = ip + 1 /\ status' \in {"none", "Ok"}) =>
        /\ IF NextInstruction.op \in {"Call", "Result"}
           THEN IF ArityMet(ip + 1)
                THEN IsCallSequence(EmittedCode) /\ brillig'.noir_call = <<>>
                ELSE /\ EmittedCode = <<>>
                     /\ brillig'.noir_call = Append(brillig.noir_call, NextInstruction.id)
           ELSE brillig'.noir_call = brillig.noir_call /\ NumPushStack(EmittedCode) = 0
        /\ NumPushStack(brillig'.obj.byte_code) = Cardinality(CallsDue(ip + 1))]_vars

\* a call of a function with two results is emitted at its second Result,
\* with another instruction between the Results
C15_Witness ==
    /\ ip = 4 /\ status = "Ok"
    /\ OpAt(1) = "Call" /\ OpAt(2) = "Result" /\ OpAt(3) = "Nop" /\ OpAt(4) = "Result"
    /\ Len(ssa_func(ssa, Callee).result_types) = 2
    /\ brillig.noir_call = <<>>
    /\ NumPushStack(brillig.obj.byte_code) = 1

\* a Call that meets the arity by itself: every result of the callee is a
\* returned array
C15_AtTheCall ==
    /\ ip = 1 /\ OpAt(1) = "Call" /\ Len(CallOf(1).cond) = 1
    /\ Len(ssa_func(ssa, Callee).result_types) = 1
    /\ NumPushStack(brillig.obj.byte_code) = 1

\* the instructions the generator does not translate: a Call while a Call
\* waits for its Results, an Intrinsic, a cast between a signed and an
\* unsigned or field type
Unsupported(gen, ctx, instr) ==
    \/ instr.op = "Call" /\ gen.noir_call # <<>>
    \/ instr.op = "Intrinsic"
    \/ /\ instr.op = "Cast"
       /\ <<object_type(ctx, instr.lhs).type, instr.res_type>> \in
            {<<"Unsigned", "Signed">>, <<"Signed", "Unsigned">>,
             <<"Signed", "NativeField">>, <<"NativeField", "Signed">>}

\* C16: an instruction the generator does not translate makes compile return
\* an error value, Err without an artefact, whether the instruction is the
\* last of its block or not; it does not panic
C16_UnsupportedIsErr ==
    [][(ip' = ip + 1 /\ Unsupported(brillig, ssa, NextInstruction)) =>
        /\ status' = "Err"
        /\ ret' = [st |-> "Err"]
        /\ pc' = "done"]_vars

\* a second Call, the last instruction of its block, while the first waits
\* for its Results
C16_Witness ==
    /\ pc = "done" /\ status = "Err" /\ ret = [st |-> "Err"]
    /\ ip = Len(BlockInstructions) /\ ip >= 2
    /\ OpAt(ip) = "Call"
    /\ brillig.noir_call # <<>>

\* an unsupported cast before the end of its block
C16_NotLast ==
    /\ pc = "done" /\ status = "Err"
    /\ ip < Len(BlockInstructions)
    /\ OpAt(ip) = "Cast"

-----------------------------------------------------------------------------
(* Specification of the linker: BrilligArtefact::link on an empty artefact *)
(* with the artefact of function 1, one iteration of its worklist loop per *)
(* step.  The functions 1 .. NumFuncs call each other; the artefact of a   *)
(* function is what BrilligGen::compile makes of its body.                 *)

NumFuncs == 4
MaxCalls == 3

Funcs == 1 .. NumFuncs

\* the block function 1 falls through to, when it has two blocks
SecondBlock == NumFuncs + 1

\* the ids of the instructions of the block: up to MaxCalls calls, an array
\* comparison before and a last instruction after them
BlockIns(block, i) == FirstInsId + (block - 1) * (MaxCalls + 2) + i - 1

\* the body of a function: a leading instruction, the comparison of two
\* arrays ("Eq") or a Constrain of variable 3 if there is one, a call of each
\* callee, and a Return, or a Nop when the function goes on in SecondBlock
BodyInstruction(block, i, callees, leading, falls_through) ==
    IF leading = "Eq" /\ i = 1
    THEN Instruction(BlockIns(block, i), "Binary", "Eq", 4, 4, 0, "Unsigned", 1)
    ELSE IF leading = "Constrain" /\ i = 1
    THEN Instruction(BlockIns(block, i), "Constrain", "none", 3, 0, 0, "NotAnObject", 0)
    ELSE IF i - (IF leading # "none" THEN 1 ELSE 0) <= Len(callees)
    THEN Instruction(BlockIns(block, i), "UnsafeCall", "none",
                     callees[i - (IF leading # "none" THEN 1 ELSE 0)], <<>>, <<>>,
                     "NotAnObject", 0)
    ELSE IF falls_through
    THEN Instruction(BlockIns(block, i), "Nop", "none", 0, 0, 0, "NotAnObject", 0)
    ELSE Instruction(BlockIns(block, i), "Return", "none", <<>>, 0, 0, "NotAnObject", 0)

BodyLen(callees, leading) == Len(callees) + 1 + (IF leading # "none" THEN 1 ELSE 0)

\* the leading instruction of the body of function bl
Leading(bl, array_eq, constrain) ==
    IF array_eq /\ bl = 1 THEN "Eq" ELSE IF constrain THEN "Constrain" ELSE "none"

\* the context the functions are compiled in: bodies[f] are the callees of f,
\* function 1 starts with an array comparison if array_eq and has a second
\* block if two_blocks, every function starts with a Constrain if constrain
SourceContext(bodies, array_eq, two_blocks, constrain) ==
    SsaContext(
        [f \in Funcs |-> SsaFunction("Unsafe", <<>>, <<>>, f, DefaultArtefact)],
        [bl \in Funcs \cup (IF two_blocks THEN {SecondBlock} ELSE {}) |->
            IF bl = SecondBlock
            THEN BasicBlock(<<BlockIns(bl, 1)>>, DummyBlock, DummyBlock, DummyBlock,
                            "Normal", DummyBlock)
            ELSE BasicBlock([i \in 1 .. BodyLen(bodies[bl], Leading(bl, array_eq, constrain)) |->
                                BlockIns(bl, i)],
                            IF two_blocks /\ bl = 1 THEN SecondBlock ELSE DummyBlock,
                            DummyBlock, DummyBlock, "Normal", DummyBlock)],
        [id \in UNION {{BlockIns(bl, i) :
                          i \in 1 .. (IF bl = SecondBlock THEN 1
                                      ELSE BodyLen(bodies[bl],
                                                   Leading(bl, array_eq, constrain)))} :
                       bl \in Funcs \cup (IF two_blocks THEN {SecondBlock} ELSE {})} |->
            Let((id - FirstInsId) \div (MaxCalls + 2) + 1, LAMBDA bl :
                BodyInstruction(bl, id - BlockIns(bl, 1) + 1,
                                IF bl = SecondBlock THEN <<>> ELSE bodies[bl],
                                IF bl = SecondBlock THEN "none"
                                ELSE Leading(bl, array_eq, constrain),
                                two_blocks /\ bl = 1))])

\* SsaFunction::compile, as the spec describes it: the artefact of a function
\* is the result of BrilligGen::compile on its entry block
function_obj(ctx, f) == compile(ctx, ssa_func(ctx, f).entry_block).obj

\* the context link runs in: the function `missing` was not compiled, so that
\* its artefact is empty, or is absent from the function table
LinkContext(ctx, missing, absent) ==
    [ctx EXCEPT !.funcs =
        [f \in IF absent THEN Funcs \ {missing} ELSE Funcs |->
            [ctx.funcs[f] EXCEPT !.obj =
                IF f = missing THEN DefaultArtefact ELSE function_obj(ctx, f)]]]

\* the calls of the functions, as <<caller, callee>> in the order of the
\* callers: MaxCalls calls in all
CallLists ==
    {calls \in UNION {[1 .. n -> Funcs \X Funcs] : n \in 0 .. MaxCalls} :
        \A i \in 1 .. Len(calls) - 1 : calls[i][1] <= calls[i + 1][1]}

\* the callees of function f among the calls from the i-th on
RECURSIVE CalleesOf(_, _, _)
CalleesOf(calls, f, i) ==
    IF i > Len(calls) THEN <<>>
    ELSE (IF calls[i][1] = f THEN <<calls[i][2]>> ELSE <<>>) \o CalleesOf(calls, f, i + 1)

Bodies(calls) == [f \in Funcs |-> CalleesOf(calls, f, 1)]

\* SsaContext::try_get_ssa_func: Some if the function is in the table
try_get_ssa_func(ctx, func) == func \in DOMAIN ctx.funcs

\* HashSet::into_iter().collect(): the elements in some order
Orders(S) ==
    {order \in [1 .. Cardinality(S) -> S] :
        \A i, j \in 1 .. Cardinality(S) : i # j => order[i] # order[j]}

InitLink ==
    /\ pc = "start"
    /\ fn = "link"
    /\ status = "none"
    /\ ret = "none"
    /\ \E calls \in CallLists, array_eq \in BOOLEAN, two_blocks \in BOOLEAN,
          constrain \in BOOLEAN, missing \in 0 .. NumFuncs, absent \in BOOLEAN :
          /\ missing # 1
          /\ missing = 0 => ~absent
          /\ ~(array_eq /\ two_blocks)
          /\ constrain => (~array_eq /\ missing = 0)
          /\ ssa = LinkContext(SourceContext(Bodies(calls), array_eq, two_blocks, constrain),
                               missing, absent)
    /\ brillig = DefaultGen
    /\ ip = 0
    /\ LinkIdle
    /\ ConstraintIdle

\* Vec::pop: the last element, and the vector without it
pop_front(v) == [func |-> v[1], queue |-> Tail(v)]
pop(v) == [func |-> v[Len(v)], queue |-> SubSeq(v, 1, Len(v) - 1)]

\* the function the loop of link pops
Popped == pop(queue).func

\* the test that keeps link from appending a function twice
never_linked(self, func) == FALSE
already_linked(self, func) == func.entry_block \in DOMAIN self.blocks

\* self.link_with(obj), the first statement of link
LinkEntry ==
    /\ pc = "start"
    /\ linked' = link_with(linked, ssa_func(ssa, 1).obj).self
    /\ \E order \in Orders(ssa_func(ssa, 1).obj.functions_to_process) : queue' = order
    /\ appended' = <<1>>
    /\ pc' = "link"
    /\ UNCHANGED <<fn, args, acir, ssa, brillig, ip, byte_code, ret, status,
                   opcodes, current_witness_index, stderr>>

\* the loop of link, for a function that is not in the function table
SkipAbsent ==
    /\ pc = "link" /\ queue # <<>>
    /\ ~try_get_ssa_func(ssa, Popped)
    /\ queue' = pop(queue).queue
    /\ UNCHANGED <<pc, fn, args, acir, ssa, brillig, ip, linked, byte_code, appended, ret,
                   status, opcodes, current_witness_index, stderr>>

\* the loop of link, for a function whose entry block has an offset already
SkipLinked ==
    /\ pc = "link" /\ queue # <<>>
    /\ try_get_ssa_func(ssa, Popped)
    /\ already_linked(linked, ssa_func(ssa, Popped))
    /\ queue' = pop(queue).queue
    /\ UNCHANGED <<pc, fn, args, acir, ssa, brillig, ip, linked, byte_code, appended, ret,
                   status, opcodes, current_witness_index, stderr>>

\* the loop of link, for a function it appends
LinkCallee ==
    /\ pc = "link" /\ queue # <<>>
    /\ try_get_ssa_func(ssa, Popped)
    /\ ~already_linked(linked, ssa_func(ssa, Popped))
    /\ link_with(linked, ssa_func(ssa, Popped).obj).st = "Ok"
    /\ linked' = link_with(linked, ssa_func(ssa, Popped).obj).self
    /\ \E order \in Orders(ssa_func(ssa, Popped).obj.functions_to_process) :
          queue' = pop(queue).queue \o order
    /\ appended' = Append(appended, Popped)
    /\ UNCHANGED <<pc, fn, args, acir, ssa, brillig, ip, byte_code, ret, status,
                   opcodes, current_witness_index, stderr>>

\* the loop of link, for a function whose artefact is empty: link_with panics
LinkUnresolved ==
    /\ pc = "link" /\ queue # <<>>
    /\ try_get_ssa_func(ssa, Popped)
    /\ ~already_linked(linked, ssa_func(ssa, Popped))
    /\ link_with(linked, ssa_func(ssa, Popped).obj).st = "panic"
    /\ status' = "panic"
    /\ pc' = "done"
    /\ queue' = pop(queue).queue
    /\ UNCHANGED <<fn, args, acir, ssa, brillig, ip, linked, byte_code, appended, ret,
                   opcodes, current_witness_index, stderr>>

\* link after fix_jumps: the bytecode it returns, if fix_jumps returns
Fixed(r) ==
    /\ linked' = r.self
    /\ status' = r.st
    /\ byte_code' = IF r.st = "Ok" THEN r.self.byte_code ELSE byte_code

\* the end of link: self.fix_jumps(); self.byte_code.clone()
LinkFixJumps ==
    /\ pc = "link" /\ queue = <<>>
    /\ Fixed(fix_jumps(linked))
    /\ pc' = "done"
    /\ UNCHANGED <<fn, args, acir, ssa, brillig, ip, queue, appended, ret,
                   opcodes, current_witness_index, stderr>>

NextLink ==
    \/ LinkEntry
    \/ SkipAbsent
    \/ SkipLinked
    \/ LinkCallee
    \/ LinkUnresolved
    \/ LinkFixJumps

SpecLink == InitLink /\ [][NextLink]_vars

\* the functions the instructions of function f call
CallsOf(ctx, f) ==
    {ctx.instructions[id].lhs :
        id \in {x \in DOMAIN ctx.instructions :
                  /\ ctx.instructions[x].op = "UnsafeCall"
                  /\ \E i \in 1 .. Len(ctx.blocks[f].instructions) :
                        ctx.blocks[f].instructions[i] = x}}

\* the functions reachable from function 1 in the call graph
RECURSIVE ReachableFrom(_, _)
ReachableFrom(ctx, S) ==
    IF \A f \in S : f \in DOMAIN ctx.funcs => CallsOf(ctx, f) \subseteq S THEN S
    ELSE ReachableFrom(ctx,
             S \cup UNION {CallsOf(ctx, f) : f \in S \cap DOMAIN ctx.funcs})

Reachable == ReachableFrom(ssa, {1})

\* the opcodes of code, whatever their operands
RECURSIVE OpsOf(_)
OpsOf(code) == IF code = <<>> THEN <<>> ELSE <<code[1].op>> \o OpsOf(Tail(code))

\* the bytecode of the artefacts of the functions, in the given order
RECURSIVE Concatenated(_, _)
Concatenated(ctx, functions) ==
    IF functions = <<>> THEN <<>>
    ELSE ssa_func(ctx, functions[1]).obj.byte_code \o Concatenated(ctx, Tail(functions))

\* the offset of the artefact of the n-th appended function
RECURSIVE OffsetOf(_, _, _)
OffsetOf(ctx, functions, n) ==
    IF n <= 1 THEN PREFIX_LEN
    ELSE OffsetOf(ctx, functions, n - 1)
         + Len(ssa_func(ctx, functions[n - 1]).obj.byte_code)

\* C12: link appends no function twice, whatever the call graph; the bytecode
\* it returns is the prefix and one copy of the artefact of each function
\* reachable from function 1, and the block map holds the entry block of
\* each of them, and of no other function, at the offset of its copy
C12_LinkedOnce ==
    /\ \A i, j \in 1 .. Len(appended) : appended[i] = appended[j] => i = j
    /\ (fn = "link" /\ pc = "done" /\ status = "Ok") =>
        /\ {appended[i] : i \in 1 .. Len(appended)} = Reachable
        /\ OpsOf(byte_code) = OpsOf(Prefix \o Concatenated(ssa, appended))
        /\ DOMAIN linked.blocks \cap Funcs = Reachable
        /\ \A i \in 1 .. Len(appended) :
              linked.blocks[appended[i]] = OffsetOf(ssa, appended, i)

\* link returned for a call graph with a cycle through functions 1 and 2, in
\* which function 2 also calls itself: it is pending in two artefacts
C12_Witness ==
    /\ fn = "link" /\ pc = "done" /\ status = "Ok"
    /\ 2 \in CallsOf(ssa, 1)
    /\ {1, 2} \subseteq CallsOf(ssa, 2)
    /\ Len(appended) = 2

LinkReturned == fn = "link" /\ pc = "done" /\ status = "Ok"

\* the opcode at a recorded offset still is the placeholder it was emitted as
IsPlaceholder(code) ==
    \/ code.op \in {"JMP", "JMPIF", "JMPIFNOT"} /\ code.destination = 0
    \/ code.op = "PushStack" /\ code.source = Constant(0)

\* the number of fix-up records of the artefacts of the functions
RECURSIVE NumRecords(_, _)
NumRecords(ctx, functions) ==
    IF functions = <<>> THEN 0
    ELSE Len(ssa_func(ctx, functions[1]).obj.to_fix) + NumRecords(ctx, Tail(functions))

\* C13: when link returns, no fix-up record remains in to_fix
C13_NoFixupsRemain == LinkReturned => linked.to_fix = <<>>

\* when link returns, to_fix still holds every record of the appended
\* artefacts, and none of them points at a placeholder
C13_ResolvedNotRemoved ==
    LinkReturned =>
        /\ Len(linked.to_fix) = NumRecords(ssa, appended)
        /\ \A n \in 1 .. Len(linked.to_fix) :
              ~IsPlaceholder(linked.byte_code[linked.to_fix[n][1] + 1])

\* a callee that is pending in the artefact of a reachable function and was
\* not compiled, or is not in the function table
MissingCallees ==
    {g \in Reachable :
        \/ g \notin DOMAIN ssa.funcs
        \/ ssa_func(ssa, g).obj.byte_code = <<>>}

\* C18: with a pending callee that was never compiled, or is absent from the
\* function table, link panics and returns no bytecode
C18_UnresolvedIsFatal ==
    (fn = "link" /\ pc = "done" /\ MissingCallees # {}) =>
        /\ status = "panic"
        /\ byte_code = <<>>

\* link reached fix_jumps with a callee that is not in the function table,
\* and panicked there
C18_Witness ==
    /\ fn = "link" /\ pc = "done" /\ status = "panic"
    /\ queue = <<>>
    /\ \E g \in Reachable : g \notin DOMAIN ssa.funcs
    /\ Len(appended) >= 2

\* link panicked in link_with on a callee whose artefact is empty
C18_EmptyArtefact ==
    /\ fn = "link" /\ pc = "done" /\ status = "panic"
    /\ \E g \in Reachable : g \in DOMAIN ssa.funcs /\ ssa_func(ssa, g).obj.byte_code = <<>>

JumpOps == {"JMP", "JMPIF", "JMPIFNOT"}

\* the fix-up records of the returned artefact that point at a jump
JumpRecords ==
    {n \in 1 .. Len(linked.to_fix) : byte_code[linked.to_fix[n][1] + 1].op \in JumpOps}

\* the jump of the n-th record goes to the offset of the block of the record,
\* an offset of the returned bytecode
JumpResolved(n) ==
    /\ linked.to_fix[n][2] \in DOMAIN linked.blocks
    /\ byte_code[linked.to_fix[n][1] + 1].destination = linked.blocks[linked.to_fix[n][2]]
    /\ byte_code[linked.to_fix[n][1] + 1].destination < Len(byte_code)

\* C19: when link returns, every recorded jump goes to the entry offset of
\* its recorded block, inside the bytecode, the jumps of an array comparison
\* included
C19_JumpsResolved == LinkReturned => \A n \in JumpRecords : JumpResolved(n)

\* the jumps recorded with a block, by process_block and unsafe_call, are
\* resolved
C19_BlockJumpsResolved ==
    LinkReturned =>
        \A n \in JumpRecords : linked.to_fix[n][2] # DummyBlock => JumpResolved(n)

\* the jumps of an array comparison, recorded with the dummy block, leave the
\* bytecode
C19_ArrayJumpsLeave ==
    LinkReturned =>
        \A n \in JumpRecords : linked.to_fix[n][2] = DummyBlock =>
            byte_code[linked.to_fix[n][1] + 1].destination >= Len(byte_code)

-----------------------------------------------------------------------------
(* The order in which link appends the artefacts *)

\* the functions appended before the j-th
AppendedBefore(j) == {appended[i] : i \in 1 .. j - 1}

\* the callees of the i-th appended function that are in the function table
\* and were not appended before the j-th
WaitingAt(i, j) == (CallsOf(ssa, appended[i]) \cap DOMAIN ssa.funcs) \ AppendedBefore(j)

\* the last function appended before the j-th that has a callee waiting
LastWaiting(j) ==
    CHOOSE p \in 1 .. j - 1 :
        /\ WaitingAt(p, j) # {}
        /\ \A q \in p + 1 .. j - 1 : WaitingAt(q, j) = {}

\* C22 as stated: link appends breadth-first, every callee pending in the
\* artefact of the entry function before any function that is pending only
\* in the artefact of a callee.
C22_BreadthFirst ==
    LinkReturned =>
        \A i, j \in 2 .. Len(appended) :
            (appended[i] \in CallsOf(ssa, 1) /\ appended[j] \notin CallsOf(ssa, 1))
                => i < j

\* C22 amended: link appends depth-first, the worklist being a stack: each
\* function appended after the entry function is a callee of the most
\* recently appended function that still has a callee waiting.
C22_DepthFirst ==
    (fn = "link" /\ pc \in {"link", "done"}) =>
        \A j \in 2 .. Len(appended) :
            appended[j] \in WaitingAt(LastWaiting(j), j)

\* function 1 calls 2 and 3, one of which calls 4: function 4 was appended
\* before the other callee of function 1
C22_Witness ==
    /\ LinkReturned
    /\ CallsOf(ssa, 1) = {2, 3}
    /\ Len(appended) = 4
    /\ appended[3] = 4

-----------------------------------------------------------------------------
(* Specification of the traversal of the blocks: BrilligGen::compile on    *)
(* the entry block of a block graph, one iteration of the loop of          *)
(* process_blocks per step.  A graph gives the left and right successor of *)
(* each of its blocks; the kind of a block, its dominator and the exit of  *)
(* an if are those of the graph.                                           *)

MaxBlocks == 4

\* the successors a block can have: none, left only, or left and right; the
\* entry block 1 is the successor of no block
Successors(n) ==
    {<<0, 0>>} \cup {<<l, r>> : l \in 2 .. n, r \in {0} \cup (2 .. n)}

Graphs == UNION {[1 .. n -> Successors(n)] : n \in 1 .. MaxBlocks}

Succ(g, bl) == {g[bl][1], g[bl][2]} \ {0}

Preds(g, bl) == {p \in DOMAIN g : bl \in Succ(g, p)}

\* the blocks that the blocks of S reach without passing through block d
RECURSIVE ReachAvoiding(_, _, _)
ReachAvoiding(g, S, d) ==
    IF (UNION {Succ(g, bl) : bl \in S}) \ {d} \subseteq S THEN S
    ELSE ReachAvoiding(g, S \cup ((UNION {Succ(g, bl) : bl \in S}) \ {d}), d)

Dominates(g, d, bl) == d = bl \/ bl \notin ReachAvoiding(g, {1} \ {d}, d)

StrictDominators(g, bl) == {d \in DOMAIN g \ {bl} : Dominates(g, d, bl)}

\* the immediate dominator of a block, none for the entry block
ImmediateDominator(g, bl) ==
    IF bl = 1 THEN DummyBlock
    ELSE CHOOSE d \in StrictDominators(g, bl) :
            \A e \in StrictDominators(g, bl) : Dominates(g, e, d)

\* a block with more than one predecessor is a join: of a loop if one of its
\* predecessors is inside the loop, of an if otherwise
BlockKind(g, bl) ==
    IF Cardinality(Preds(g, bl)) <= 1 THEN "Normal"
    ELSE IF \E p \in Preds(g, bl) : Dominates(g, bl, p) THEN "ForJoin"
    ELSE "IfJoin"

\* the joins of the ifs that block bl opens
IfJoins(g, bl) ==
    {j \in DOMAIN g : BlockKind(g, j) = "IfJoin" /\ ImmediateDominator(g, j) = bl}

\* block::find_join for the block of an if condition: the join of the if,
\* the one that is not a successor when there is one
IfExit(g, bl) ==
    IF BlockKind(g, bl) # "Normal" \/ g[bl][2] = 0 \/ IfJoins(g, bl) = {} THEN DummyBlock
    ELSE IF IfJoins(g, bl) \ Succ(g, bl) # {} THEN CHOOSE j \in IfJoins(g, bl) \ Succ(g, bl) : TRUE
    ELSE CHOOSE j \in IfJoins(g, bl) : TRUE

\* every block is reached from the entry block, and every join is a
\* successor or the if-exit of its immediate dominator
Structured(g) ==
    /\ ReachAvoiding(g, {1}, 0) = DOMAIN g
    /\ \A j \in DOMAIN g :
          BlockKind(g, j) # "Normal" =>
              j \in Succ(g, ImmediateDominator(g, j)) \cup {IfExit(g, ImmediateDominator(g, j))}

\* the ids of the instructions of a block: a Phi, in a join, and the last one
PhiOf(bl) == FirstInsId + 2 * (bl - 1)
LastOf(bl) == FirstInsId + 2 * (bl - 1) + 1

\* the arguments of the Phi of a join: node 2 from each predecessor
RECURSIVE PhiArguments(_, _)
PhiArguments(preds, n) ==
    IF n > MaxBlocks THEN <<>>
    ELSE (IF n \in preds THEN <<<<2, n>>>> ELSE <<>>) \o PhiArguments(preds, n + 1)

\* the last instruction of a block: a conditional jump to right (Jeq for the
\* condition of an if), a jump to left or nothing before a fall-through, and
\* a Return in a block without successor
LastInstruction(g, bl, explicit) ==
    IF g[bl][2] # 0
    THEN Instruction(LastOf(bl), IF IfExit(g, bl) # DummyBlock THEN "Jeq" ELSE "Jne", "none",
                     2, g[bl][2], 0, "NotAnObject", 0)
    ELSE IF g[bl][1] # 0 /\ explicit
    THEN Instruction(LastOf(bl), "Jmp", "none", 0, g[bl][1], 0, "NotAnObject", 0)
    ELSE IF g[bl][1] # 0
    THEN Instruction(LastOf(bl), "Nop", "none", 0, 0, 0, "NotAnObject", 0)
    ELSE Instruction(LastOf(bl), "Return", "none", <<2>>, 0, 0, "NotAnObject", 0)

\* the context of a function whose blocks are those of the graph
GraphContext(g, explicit) ==
    SsaContext(
        (1 :> SsaFunction("Unsafe", <<>>, <<>>, 1, DefaultArtefact)),
        [bl \in DOMAIN g |->
            BasicBlock(IF BlockKind(g, bl) = "Normal" THEN <<LastOf(bl)>>
                       ELSE <<PhiOf(bl), LastOf(bl)>>,
                       g[bl][1], g[bl][2], IfExit(g, bl), BlockKind(g, bl),
                       ImmediateDominator(g, bl))],
        [id \in UNION {{LastOf(bl)} \cup (IF BlockKind(g, bl) = "Normal" THEN {}
                                            ELSE {PhiOf(bl)}) : bl \in DOMAIN g} |->
            Let((id - FirstInsId) \div 2 + 1, LAMBDA bl :
                IF id = PhiOf(bl)
                THEN Instruction(id, "Phi", "none", PhiArguments(Preds(g, bl), 1), 0, 0,
                                 "NativeField", FieldBits)
                ELSE LastInstruction(g, bl, explicit))])

InitBlocks ==
    /\ pc = "blocks"
    /\ fn = "compile"
    /\ status = "none"
    /\ ret = "none"
    /\ \E g \in Graphs, explicit \in BOOLEAN :
          /\ Structured(g)
          /\ ssa = GraphContext(g, explicit)
    /\ brillig = DefaultGen
    /\ ip = 0
    /\ queue = <<1>>
    /\ linked = DefaultArtefact
    /\ byte_code = <<>>
    /\ appended = <<>>
    /\ ConstraintIdle

\* the generator and the stack after process_block on block current
Visited(r, current) ==
    /\ brillig' = r.gen
    /\ queue' = IF r.st = "Ok"
                THEN add_to_queue(pop(queue).queue, ssa, current, r.children, 1)
                ELSE pop(queue).queue
    /\ pc' = IF r.st = "Ok" THEN "blocks" ELSE "done"
    /\ status' = IF r.st = "Ok" THEN "none" ELSE r.st
    /\ ret' = IF r.st = "Ok" THEN ret ELSE Compiled(r.st, r.gen)

\* one iteration of the loop of process_blocks
ProcessBlock ==
    /\ pc = "blocks" /\ queue # <<>>
    /\ Visited(process_block(brillig, ssa, pop(queue).func), pop(queue).func)
    /\ ip' = pop(queue).func
    /\ UNCHANGED <<fn, args, acir, ssa, linked, byte_code, appended,
                   opcodes, current_witness_index, stderr>>

\* the stack is empty: process_blocks returns Ok(()) and compile the artefact
ReturnArtefact ==
    /\ pc = "blocks" /\ queue = <<>>
    /\ ret' = Compiled("Ok", brillig)
    /\ status' = "Ok"
    /\ pc' = "done"
    /\ UNCHANGED <<fn, args, acir, ssa, brillig, ip, queue, linked, byte_code, appended,
                   opcodes, current_witness_index, stderr>>

NextBlocks == ProcessBlock \/ ReturnArtefact

SpecBlocks == InitBlocks /\ [][NextBlocks]_vars

\* the number of opcodes op among code
NumOps(code, op) == Cardinality({n \in 1 .. Len(code) : code[n].op = op})

\* what the step adds to the bytecode and to the fix-up records
EmittedBy(before, after) ==
    SubSeq(after.obj.byte_code, Len(before.obj.byte_code) + 1, Len(after.obj.byte_code))
RecordedBy(before, after) ==
    SubSeq(after.obj.to_fix, Len(before.obj.to_fix) + 1, Len(after.obj.to_fix))

\* the last instruction of a block
LastInstructionOf(ctx, block) ==
    try_get_instruction(ctx, block.instructions[Len(block.instructions)])

\* what process_block did to a block: a fall-through jump to left, a return
\* to the caller, the entry offset
FallsThrough(before, after, block) ==
    /\ NumOps(EmittedBy(before, after), "JMP") = 1
    /\ after.obj.byte_code[Len(after.obj.byte_code)] = JMP(0)
    /\ RecordedBy(before, after) = <<<<Len(after.obj.byte_code) - 1, block.left>>>>

ReturnsToCaller(before, after) ==
    /\ NumOps(EmittedBy(before, after), "CallBack") = 1
    /\ after.obj.byte_code[Len(after.obj.byte_code)] = CallBack
    /\ RecordedBy(before, after) = <<>>

ProcessedAs(before, after, ctx, block_id, block) ==
    /\ (LastInstructionOf(ctx, block).op \notin {"Jne", "Jeq", "Jmp"}
            /\ block.left # DummyBlock)
         => FallsThrough(before, after, block)
    /\ (block.left = DummyBlock /\ block.right = DummyBlock /\ block.exit = DummyBlock)
         => ReturnsToCaller(before, after)
    /\ after.obj.blocks[block_id] = Len(before.obj.byte_code)

C23_Returns ==
    /\ fn = "compile" /\ pc = "blocks" /\ ip > 1
    /\ ssa.blocks[ip].left = DummyBlock
    /\ brillig.obj.byte_code[Len(brillig.obj.byte_code)] = CallBack

\* the blocks reached from the entry block through left, right and exit
RECURSIVE BlocksFrom(_, _)
BlocksFrom(ctx, S) ==
    IF (UNION {{ctx.blocks[bl].left, ctx.blocks[bl].right, ctx.blocks[bl].exit} : bl \in S})
           \ {DummyBlock} \subseteq S
    THEN S
    ELSE BlocksFrom(ctx, S \cup ((UNION {{ctx.blocks[bl].left, ctx.blocks[bl].right,
                                           ctx.blocks[bl].exit} : bl \in S}) \ {DummyBlock}))

\* the blocks process_blocks has still to process
Unprocessed == BlocksFrom(ssa, {1}) \ DOMAIN brillig.obj.blocks

\* an iteration of the loop of process_blocks records the offset of a block
\* that had none, so that fewer blocks remain, and pushes a join only if
\* current is its dominator
VisitsOnce(current) ==
    /\ current \in Unprocessed
    /\ Unprocessed' = Unprocessed \ {current}
    /\ \A j \in DOMAIN ssa.blocks :
          (is_join(ssa.blocks[j]) /\ InQueue(queue', j) /\ ~InQueue(queue, j))
              => ssa.blocks[j].dominator = current

C26_Diamond ==
    /\ fn = "compile" /\ pc = "done" /\ status = "Ok"
    /\ ssa.blocks[1].exit = 4 /\ ssa.blocks[1].left = 2 /\ ssa.blocks[1].right = 3
    /\ ssa.blocks[2].left = 4 /\ ssa.blocks[3].left = 4
    /\ ssa.blocks[4].kind = "IfJoin"

-----------------------------------------------------------------------------
(* Specification of the equalities: Acir::evaluate_instruction on Eq and   *)
(* Ne, after sums, differences and stores that make constants, expressions *)
(* and array elements for them to compare.                                 *)

EvaluateSum ==
    \E operator \in {"Add", "Sub"}, l \in Operands, r \in Operands :
        Evaluate(Instruction(NextInsId, "Binary", operator, l, r, 0,
                             "NativeField", FieldBits))

\* the operands are scalars or the array
EvaluateEquality ==
    \E operator \in {"Eq", "Ne"}, l \in Operands \cup {4}, r \in Operands \cup {4} :
        Evaluate(Instruction(NextInsId, "Binary", operator, l, r, 0,
                             "NativeField", FieldBits))

NextEquality == EvaluateSum \/ EvaluateStore \/ EvaluateEquality

SpecEquality == InitAcir /\ [][NextEquality]_vars

\* the generator before the step
Generator ==
    AcirState(arith_cache, memory_map, Evaluator(current_witness_index, opcodes),
              public_inputs)

\* the values of the witnesses used to compare two expressions: every
\* witness has the value v
Uniform(v) == [w \in 1 .. current_witness_index' |-> v]

\* the step lowered eq as the generator before it lowers the same
\* instruction with Ne: the same outcome, opcodes and witnesses, and a
\* result that is 1 minus the result of Ne
MirrorsNe(eq, ne) ==
    /\ status' = ne.outcome
    /\ opcodes' = ne.st.ev.ops
    /\ current_witness_index' = ne.st.ev.cwi
    /\ memory_map' = ne.st.mem
    /\ status' = "Ok" =>
        /\ add(arith_cache'[eq.id].expression, 1, ne.st.cache[eq.id].expression) = ExprOne
        /\ \A v \in 0 .. 3 :
              Eval(arith_cache'[eq.id].expression, Uniform(v))
                = FAdd(1, FNeg(Eval(ne.st.cache[eq.id].expression, Uniform(v))))

\* both operands of the instruction are compile-time constants
BothConstant(cache, instr) ==
    /\ instr.lhs \in DOMAIN cache /\ is_const_var(cache[instr.lhs])
    /\ instr.rhs \in DOMAIN cache /\ is_const_var(cache[instr.rhs])

\* no opcode, and 1 exactly when the constants are equal
ResolvedAtCompileTime(eq) ==
    /\ opcodes' = opcodes
    /\ current_witness_index' = current_witness_index
    /\ arith_cache'[eq.id].expression =
          IF arith_cache'[eq.lhs].expression.q_c = arith_cache'[eq.rhs].expression.q_c
          THEN ExprOne ELSE ExprZero

\* C24: on two scalars, two compile-time constants or two arrays, lowering
\* Eq emits the opcodes and allocates the witnesses that lowering Ne emits
\* and allocates on the same operands, and the result of Eq is 1 minus the
\* result of Ne; on two compile-time constants no opcode is emitted and Eq
\* yields 1 exactly when the constants are equal.
C24_EqMirrorsNe ==
    [][(ins' # ins /\ ins'.op = "Binary" /\ ins'.operator = "Eq") =>
        /\ MirrorsNe(ins', evaluate_instruction(Generator, [ins' EXCEPT !.operator = "Ne"]))
        /\ (status' = "Ok" /\ BothConstant(arith_cache', ins'))
              => ResolvedAtCompileTime(ins')]_vars

\* Eq on the two variables: the difference got a witness and the three
\* opcodes of the zero equality
C24_Witness ==
    /\ ins.op = "Binary" /\ ins.operator = "Eq" /\ status = "Ok"
    /\ ins.lhs = 2 /\ ins.rhs = 3
    /\ Len(opcodes) = Len(pre.ops) + 4
    /\ current_witness_index = pre.cwi + 4

\* Eq on the constant 1 and the constant 1 + 1
C24_Constants ==
    /\ ins.op = "Binary" /\ ins.operator = "Eq" /\ status = "Ok"
    /\ ins.lhs = 1 /\ ins.rhs = FirstInsId
    /\ arith_cache[FirstInsId].expression = from_field(2)
    /\ arith_cache[ins.id].expression = ExprZero
    /\ opcodes = <<>>

\* Eq on the array and itself, after a store of a variable in it
C24_Arrays ==
    /\ ins.op = "Binary" /\ ins.operator = "Eq" /\ status = "Ok"
    /\ ins.lhs = 4 /\ ins.rhs = 4
    /\ memory_map # <<>>
    /\ Len(opcodes) > Len(pre.ops) + 3 * ArrayLen

-----------------------------------------------------------------------------
(* The bitwise pre-pass, under SpecBitwise *)

\* the constant 0 or the constant 2^bits - 1
ZeroOrAllOnes(e, bits) == is_const(e) /\ (e.q_c = 0 \/ e.q_c = (2 ^ bits - 1) % FieldModulus)

\* the arm of evaluate_binary for And, Or and Xor ran
BitwiseArm == fn = "evaluate_binary" /\ pc \in {"simplified", "general"}

\* for width 1 the simplified a OP a has the value of the general formula
\* wherever a is 0 or 1
SameOperandAgrees ==
    (BitwiseArm /\ a = b /\ num_bits = 1) =>
        \A asg \in SampleAssignments :
            Eval(a, asg) \in {0, 1} =>
                Eval(ret, asg) = FieldIdentity(opcode, Eval(a, asg), Eval(a, asg))

\* C25: simplify_bitwise returns a result whenever the operands are
\* identical and whenever either operand, left or right, is the constant 0
\* or the constant 2^bits - 1, whatever the other operand; so the general
\* path is never entered with two constants one of which is 0 or all ones;
\* for width 1 the simplified a OP a has the value of the general formula
\* for a in {0,1}.
C25_SimplifiesEitherConstant ==
    /\ (BitwiseArm /\ (a = b \/ ZeroOrAllOnes(a, num_bits) \/ ZeroOrAllOnes(b, num_bits)))
         => (pc = "simplified" /\ status = "ok" /\ opcodes = <<>>)
    /\ (BitwiseArm /\ pc = "general" /\ is_const(a) /\ is_const(b))
         => ~(ZeroOrAllOnes(a, num_bits) \/ ZeroOrAllOnes(b, num_bits))
    /\ SameOperandAgrees

\* what the code does: the right operand is looked at only if the left one
\* is not a constant
C25_SimplifiesUnlessLeftConstant ==
    /\ (BitwiseArm /\ (a = b \/ ZeroOrAllOnes(a, num_bits)
                         \/ (~is_const(a) /\ ZeroOrAllOnes(b, num_bits))))
         => (pc = "simplified" /\ status = "ok" /\ opcodes = <<>>)
    /\ (BitwiseArm /\ a # b /\ is_const(a) /\ ~ZeroOrAllOnes(a, num_bits))
         => (pc = "general" /\ (is_const(b) => status = "panic"))
    /\ SameOperandAgrees

\* 1 AND 0 at width 2: the general path was entered with two constants and
\* stopped on its precondition
C25_Unsimplified ==
    /\ BitwiseArm /\ pc = "general" /\ num_bits = 2 /\ opcode = "And"
    /\ a = from_field(1) /\ b = from_field(0)
    /\ status = "panic"

-----------------------------------------------------------------------------
(* The return address of a call, under SpecLink *)

\* the offsets of the returned bytecode that hold a return-address opcode
PushStackOffsets == {j \in 0 .. Len(byte_code) - 1 : byte_code[j + 1].op = "PushStack"}

\* the calls the bodies of the appended functions make
RECURSIVE NumCalls(_, _)
NumCalls(ctx, functions) ==
    IF functions = <<>> THEN 0
    ELSE Cardinality({x \in DOMAIN ctx.instructions :
                        /\ ctx.instructions[x].op = "UnsafeCall"
                        /\ \E i \in 1 .. Len(ctx.blocks[functions[1]].instructions) :
                              ctx.blocks[functions[1]].instructions[i] = x})
         + NumCalls(ctx, Tail(functions))

\* the return-address opcode at offset j is followed by the jump to the entry
\* of an appended function, and pushes the offset after that jump
ReturnsAfterJump(j) ==
    /\ j + 2 <= Len(byte_code)
    /\ byte_code[j + 2].op = "JMP"
    /\ \E i \in 1 .. Len(appended) :
          byte_code[j + 2].destination = linked.blocks[appended[i]]
    /\ byte_code[j + 1].source = Constant(j + 2)

\* C27: in the bytecode link returns, each call of the appended functions has
\* one return-address opcode; it is immediately followed by the jump to the
\* callee and pushes the offset of the instruction after that jump, wherever
\* the artefact of the caller was placed
C27_ReturnAddress ==
    LinkReturned =>
        /\ Cardinality(PushStackOffsets) = NumCalls(ssa, appended)
        /\ \A j \in PushStackOffsets : ReturnsAfterJump(j)

\* link returned three artefacts, and the last one appended, which is not at
\* the start of the bytecode, makes a call, as does the first
C27_Witness ==
    /\ LinkReturned
    /\ Len(appended) = 3
    /\ \E j \in PushStackOffsets : j >= linked.blocks[appended[3]]
    /\ \E j \in PushStackOffsets : j < linked.blocks[appended[2]]

-----------------------------------------------------------------------------
(* The termination of link, under SpecLink *)

\* the functions of the table that link has not appended
Unlinked == DOMAIN ssa.funcs \ {appended[i] : i \in 1 .. Len(appended)}

\* C28: link terminates, whatever the call graph: each iteration of its loop
\* either appends a function it had not appended, and only then adds
\* functions to the worklist, the pending callees of that function, or
\* leaves the worklist one shorter; with the worklist empty link ends
C28_LinkTerminates ==
    [][(fn = "link" /\ pc = "link") =>
          IF queue = <<>> THEN pc' = "done"
          ELSE \/ pc' = "done"
               \/ /\ Popped \in Unlinked
                  /\ Unlinked' = Unlinked \ {Popped}
                  /\ \E order \in Orders(ssa_func(ssa, Popped).obj.functions_to_process) :
                        queue' = pop(queue).queue \o order
               \/ /\ Unlinked' = Unlinked
                  /\ queue' = pop(queue).queue]_vars

\* link returned for functions 1 and 2 that call each other, function 1
\* calling itself as well
C28_Witness ==
    /\ LinkReturned
    /\ CallsOf(ssa, 1) = {1, 2}
    /\ 1 \in CallsOf(ssa, 2)
    /\ Len(appended) = 2
    /\ queue = <<>>

-----------------------------------------------------------------------------
(* The temporary registers, under SpecCompile *)

\* the registers the copies of code load into: memcpy takes one from
\* get_tmp_register for each element, and the blocks have no Load instruction
CopyTemporaries(code) ==
    {code[i].destination.reg : i \in {j \in DOMAIN code : code[j].op = "Load"}}

\* the SSA values instruction instr gives a register to through
\* node_2_register: its operands that are no constants, and its result
ValuesOf(instr) ==
    {v \in (IF instr.op = "Binary" THEN {instr.lhs, instr.rhs, instr.id}
            ELSE IF instr.op = "Cast" THEN {instr.lhs, instr.id}
            ELSE IF instr.op = "Result" THEN {instr.id}
            ELSE {}) : try_get_node(v).kind # "Const"}

\* the SSA values of the block being compiled
BlockValues ==
    UNION {ValuesOf(try_get_instruction(ssa, BlockInstructions[i])) :
             i \in 1 .. Len(BlockInstructions)}

CompileReturned == fn = "compile" /\ pc = "done" /\ status = "Ok"

\* C29: a temporary register from get_tmp_register is never the register of
\* an SSA value of the function being compiled, whether the value was
\* referenced before the temporary was allocated or only later; the register
\* of an SSA value is its raw index.
C29_TemporariesApart ==
    CompileReturned =>
        /\ CopyTemporaries(ret.obj.byte_code) \cap BlockValues = {}
        /\ \A v \in BlockValues : node_2_register(brillig, v).reg = Register(v)

\* what the code gives: a temporary is above every register the generator
\* had recorded when the instruction that allocates it began
C29_AboveRecorded ==
    [][fn = "compile" =>
          \A t \in CopyTemporaries(SubSeq(brillig'.obj.byte_code,
                                          Len(brillig.obj.byte_code) + 1,
                                          Len(brillig'.obj.byte_code))) :
              t > brillig.max_register /\ t <= brillig'.max_register]_vars

-----------------------------------------------------------------------------
(* The prefix of the linked bytecode and the exit of a failed Constrain,   *)
(* under SpecLink                                                          *)

\* the offsets fix_jumps rewrites
RecordedOffsets == {linked.to_fix[n][1] : n \in 1 .. Len(linked.to_fix)}

\* the offsets of the JMPIFNOT opcodes that no fix-up record points at:
\* those instruction_to_bc emits for Constrain
ConstrainOffsets ==
    {j \in 0 .. Len(byte_code) - 1 :
        byte_code[j + 1].op = "JMPIFNOT" /\ j \notin RecordedOffsets}

\* the Constrain instructions of the bodies of the functions
RECURSIVE NumConstrains(_, _)
NumConstrains(ctx, functions) ==
    IF functions = <<>> THEN 0
    ELSE Cardinality({x \in DOMAIN ctx.instructions :
                        /\ ctx.instructions[x].op = "Constrain"
                        /\ \E i \in 1 .. Len(ctx.blocks[functions[1]].instructions) :
                              ctx.blocks[functions[1]].instructions[i] = x})
         + NumConstrains(ctx, Tail(functions))

\* C30: the bytecode link returns, from an empty artefact, starts with JMP 3,
\* Trap, Stop, put there once however many artefacts are appended; the entry
\* block of the entry function is at offset 3; the JMPIFNOT of each Constrain
\* still has destination 1, the offset of the Trap
C30_PrefixAndTrap ==
    LinkReturned =>
        /\ Len(byte_code) >= 3
        /\ SubSeq(byte_code, 1, 3) = <<JMP(3), Trap, Stop>>
        /\ Len(byte_code) = 3 + Len(Concatenated(ssa, appended))
        /\ {j \in 0 .. Len(byte_code) - 1 : byte_code[j + 1].op \in {"Trap", "Stop"}} = {1, 2}
        /\ linked.blocks[ssa_func(ssa, 1).entry_block] = 3
        /\ Cardinality(ConstrainOffsets) = NumConstrains(ssa, appended)
        /\ \A j \in ConstrainOffsets :
              byte_code[j + 1].destination = 1 /\ byte_code[1 + 1] = Trap

\* link returned three artefacts that each start with a Constrain
C30_Witness ==
    /\ LinkReturned
    /\ Len(appended) = 3
    /\ Cardinality(ConstrainOffsets) = 3
    /\ \E j \in ConstrainOffsets : j = linked.blocks[appended[3]]

=============================================================================
